---------------------------- MODULE Spec2Model ----------------------------
(***************************************************************************)
(* A model of tixml2svd (src/src/lib.rs, src/src/main.rs): the two         *)
(* streaming transducers process_device_base and process_peripheral_base,  *)
(* the helpers they call, and the dispatch in main_.                       *)
(*                                                                         *)
(* Input documents.  Both transducers iterate over the events of an        *)
(* xml::EventReader.  The reader only delivers well-formed documents: an   *)
(* EndElement always closes the innermost open element, a document has     *)
(* one root, and a reader error is the last event of the stream.  The      *)
(* model keeps the reader's stack of open elements in reader_open.         *)
(* The documents considered follow the nesting order of the vendor         *)
(* format (module > register > bitfield > bitenum, device > cpu >          *)
(* instance/property): an element never opens inside an element of the     *)
(* same or of a deeper level.  Levels may be skipped (a bitfield directly  *)
(* under a module) and unknown elements may appear anywhere.               *)
(*                                                                         *)
(* Text.  A String is a sequence of one-character strings, so that trim,   *)
(* starts_with, push, parse and format are modelled by what they do.       *)
(*                                                                         *)
(* Numbers.  TLC's integers are 32-bit signed.  A u32 or u64 that is       *)
(* parsed from text is a little-endian sequence of 16-bit limbs; a u64     *)
(* on which the code shifts and ORs is the set of its one-bits (0..63).    *)
(***************************************************************************)
EXTENDS Integers, Sequences, FiniteSets, TLC

---------------------------------------------------------------------------
(* Option<T>: None is the empty tuple, Some(x) the one-element tuple.      *)

None == << >>
Some(x) == << x >>
IsSome(o) == o # << >>
Unwrap(o) == o[1]

---------------------------------------------------------------------------
(* Strings                                                                 *)

Digits == << "0", "1", "2", "3", "4", "5", "6", "7", "8", "9" >>
HexUpper == Digits \o << "A", "B", "C", "D", "E", "F" >>
HexLower == Digits \o << "a", "b", "c", "d", "e", "f" >>

\* The position (0-based) of character c in table t, or -1.
IndexOf(t, c) ==
    IF \E i \in 1..Len(t) : t[i] = c
    THEN (CHOOSE i \in 1..Len(t) : t[i] = c) - 1
    ELSE -1

\* str::starts_with
starts_with(s, p) == Len(s) >= Len(p) /\ SubSeq(s, 1, Len(p)) = p

IsWhite(c) == c = " "

\* str::trim: the string without its leading and trailing white space.
trim(s) ==
    LET keep == { i \in 1..Len(s) : ~IsWhite(s[i]) }
    IN  IF keep = {} THEN << >>
        ELSE LET lo == CHOOSE i \in keep : \A j \in keep : i <= j
                 hi == CHOOSE i \in keep : \A j \in keep : i >= j
             IN  SubSeq(s, lo, hi)

\* str::replace(from, to): every non-overlapping occurrence, left to right.
RECURSIVE replace(_, _, _)
replace(s, from, to) ==
    IF s = << >> THEN << >>
    ELSE IF starts_with(s, from)
         THEN to \o replace(SubSeq(s, Len(from) + 1, Len(s)), from, to)
         ELSE << s[1] >> \o replace(Tail(s), from, to)

---------------------------------------------------------------------------
(* Unsigned integers as 16-bit limbs, least significant limb first.        *)

LimbBase == 256 * 256

Zero(n) == [i \in 1..n |-> 0]

\* limbs * m + a for small m and a; the limbs of the result and the carry
\* out of the top limb.
RECURSIVE MulAddFrom(_, _, _, _)
MulAddFrom(l, m, carry, i) ==
    IF i > Len(l) THEN [v |-> l, carry |-> carry]
    ELSE LET x == l[i] * m + carry
         IN  MulAddFrom([l EXCEPT ![i] = x % LimbBase], m, x \div LimbBase, i + 1)

MulAdd(l, m, a) == MulAddFrom(l, m, a, 1)

\* core::num::from_str_radix for an unsigned type of n limbs: an optional
\* leading "+", then at least one digit of the radix; Err on any other
\* character and on overflow.  [ok |-> FALSE] is Err(ParseIntError).
RECURSIVE ParseDigits(_, _, _, _)
ParseDigits(s, radix, acc, i) ==
    IF i > Len(s) THEN [ok |-> TRUE, v |-> acc]
    ELSE LET up == IndexOf(HexUpper, s[i])
             lo == IndexOf(HexLower, s[i])
             d  == IF up >= 0 THEN up ELSE lo
         IN  IF d < 0 \/ d >= radix THEN [ok |-> FALSE]
             ELSE LET r == MulAdd(acc, radix, d)
                  IN  IF r.carry # 0 THEN [ok |-> FALSE]
                      ELSE ParseDigits(s, radix, r.v, i + 1)

from_str_radix(s, radix, n) ==
    LET body == IF s # << >> /\ s[1] = "+" THEN Tail(s) ELSE s
    IN  IF body = << >> THEN [ok |-> FALSE]
        ELSE ParseDigits(body, radix, Zero(n), 1)

\* Comparison of two numbers of the same number of limbs.
RECURSIVE LimbsLess(_, _, _)
LimbsLess(a, b, i) ==
    IF i = 0 THEN FALSE
    ELSE IF a[i] # b[i] THEN a[i] < b[i]
    ELSE LimbsLess(a, b, i - 1)

Less(a, b) == LimbsLess(a, b, Len(a))

\* a + b: the wrapped sum and whether it overflowed.
RECURSIVE AddFrom(_, _, _, _)
AddFrom(a, b, carry, i) ==
    IF i > Len(a) THEN [v |-> a, overflow |-> carry # 0]
    ELSE LET x == a[i] + b[i] + carry
         IN  AddFrom([a EXCEPT ![i] = x % LimbBase], b, x \div LimbBase, i + 1)

Add(a, b) == AddFrom(a, b, 0, 1)

\* a - b: the wrapped difference and whether it underflowed.
RECURSIVE SubFrom(_, _, _, _)
SubFrom(a, b, borrow, i) ==
    IF i > Len(a) THEN [v |-> a, overflow |-> borrow # 0]
    ELSE LET x == a[i] - b[i] - borrow
         IN  SubFrom([a EXCEPT ![i] = x % LimbBase], b,
                     IF x < 0 THEN 1 ELSE 0, i + 1)

Sub(a, b) == SubFrom(a, b, 0, 1)

\* The number n (0 <= n < 65536) in k limbs.
Small(n, k) == [i \in 1..k |-> IF i = 1 THEN n ELSE 0]

IsZero(l) == \A i \in 1..Len(l) : l[i] = 0

\* Division of the limbs by 10: quotient and remainder.
RECURSIVE Div10From(_, _, _)
Div10From(l, rem, i) ==
    IF i = 0 THEN [q |-> l, r |-> rem]
    ELSE LET x == rem * LimbBase + l[i]
         IN  Div10From([l EXCEPT ![i] = x \div 10], x % 10, i - 1)

\* ToString for an unsigned integer: its decimal digits.
RECURSIVE DecimalDigits(_)
DecimalDigits(l) ==
    LET d == Div10From(l, 0, Len(l))
    IN  IF IsZero(d.q) THEN << Digits[d.r + 1] >>
        ELSE Append(DecimalDigits(d.q), Digits[d.r + 1])

to_string(l) == DecimalDigits(l)

---------------------------------------------------------------------------
(* A u64 as the set of its one-bits.                                       *)

U64Bits == 64

Pow2(n) == IF n = 0 THEN 1 ELSE 2 ^ n

BitsOf(l) ==
    { p \in 0..(16 * Len(l) - 1) :
        (l[(p \div 16) + 1] \div Pow2(p % 16)) % 2 = 1 }

\* value >> n and value << n for n in 0..63 (u64: bits shifted out are lost)
shr(v, n) == { b - n : b \in { c \in v : c >= n } }
shl(v, n) == { b + n : b \in { c \in v : c + n < U64Bits } }

\* format!("{:X}", value): upper-case hexadecimal without leading zeros.
Nibble(v, k) ==
    (IF 4 * k \in v THEN 1 ELSE 0) + (IF 4 * k + 1 \in v THEN 2 ELSE 0)
    + (IF 4 * k + 2 \in v THEN 4 ELSE 0) + (IF 4 * k + 3 \in v THEN 8 ELSE 0)

UpperHex(v) ==
    IF v = {} THEN << "0" >>
    ELSE LET top == CHOOSE b \in v : \A c \in v : c <= b
             n   == top \div 4
         IN  [i \in 1..(n + 1) |-> HexUpper[Nibble(v, n + 1 - i) + 1]]

---------------------------------------------------------------------------
(* Output events (xml::writer::XmlEvent) and the write_* helpers.  The     *)
(* helpers return the events they write; the writer itself is taken not    *)
(* to fail.                                                                *)

StartTag(element) == [t |-> "start", name |-> element]
Characters(content) == [t |-> "text", s |-> content]
EndTag == [t |-> "end"]
CommentEv(data) == [t |-> "comment", s |-> data]

write_start(element) == << StartTag(element) >>
write_content(content) == << Characters(content) >>
write_end == << EndTag >>
write_comment(data) == << CommentEv(data) >>

write_tag(element, content) ==
    write_start(element) \o write_content(content) \o write_end

\* String literals of the source.
S_RO == << "R", "O" >>
S_WO == << "W", "O" >>
S_RW == << "R", "W" >>
S_read == << "r", "e", "a", "d" >>
S_write == << "w", "r", "i", "t", "e" >>
S_read_write == << "r", "e", "a", "d", "-", "w", "r", "i", "t", "e" >>
S_0 == << "0" >>
S_0x == << "0", "x" >>
S_dashes == << "-", "-" >>
S_underscore == "_"

\* A faulty write_access: "WO" mapped to "read", unknown keys copied.
write_access_broken(args, ti_access) ==
    IF ti_access = S_RO THEN write_tag("access", S_read)
    ELSE IF ti_access = S_WO THEN write_tag("access", S_read)
    ELSE IF ti_access = S_RW THEN write_tag("access", S_read_write)
    ELSE write_tag("access", ti_access)

\* A faulty write_access: the diagnostic for an unknown key written to the
\* output unless silent.
write_access_loud(args, ti_access) ==
    IF ti_access = S_RO THEN write_tag("access", S_read)
    ELSE IF ti_access = S_WO THEN write_tag("access", S_write)
    ELSE IF ti_access = S_RW THEN write_tag("access", S_read_write)
    ELSE IF ~args.silent THEN write_comment(ti_access)
    ELSE << >>

\* write_access: the events written for a TIXML access key; it returns
\* Ok(()) on every path.
write_access(args, ti_access) ==
    IF ti_access = S_RO THEN write_tag("access", S_read)
    ELSE IF ti_access = S_WO THEN write_tag("access", S_write)
    ELSE IF ti_access = S_RW THEN write_tag("access", S_read_write)
    ELSE << >>

---------------------------------------------------------------------------
(* Input events (xml::reader::XmlEvent) and attribute lists.               *)

StartElement(n, attributes) == [kind |-> "start", name |-> n, attrs |-> attributes]
EndElement(n) == [kind |-> "end", name |-> n]
ReaderError == [kind |-> "error"]
OtherEvent == [kind |-> "other"]

Attr(n, v) == << n, v >>

\* "let value = if args.sanitize { value.trim() } else { value }"
AttrValue(args, v) == IF args.sanitize THEN trim(v) ELSE v

\* The attribute loops of the handlers: the value the loop leaves in the
\* Option for attribute n ("if value.len() > 0 { f = Some(value) }").
RECURSIVE LookupFrom(_, _, _, _, _)
LookupFrom(args, attributes, n, i, found) ==
    IF i > Len(attributes) THEN found
    ELSE LET v == AttrValue(args, attributes[i][2])
         IN  LookupFrom(args, attributes, n, i + 1,
                 IF attributes[i][1] = n /\ Len(v) > 0 THEN Some(v) ELSE found)

Lookup(args, attributes, n) == LookupFrom(args, attributes, n, 1, None)

\* The same loop for an attribute the handler takes without the length
\* test (bitfield "resetval").
RECURSIVE LookupRawFrom(_, _, _, _, _)
LookupRawFrom(args, attributes, n, i, found) ==
    IF i > Len(attributes) THEN found
    ELSE LookupRawFrom(args, attributes, n, i + 1,
             IF attributes[i][1] = n
             THEN Some(AttrValue(args, attributes[i][2])) ELSE found)

LookupRaw(args, attributes, n) == LookupRawFrom(args, attributes, n, 1, None)

---------------------------------------------------------------------------
(* process_peripheral_base.  PeripheralLocals is the state of its local    *)
(* variables before the first event.  Every handler returns the locals     *)
(* after it, the output events it wrote and how it left the loop:          *)
(* "running" (next event), "err" (return Err) or "panic" (an unwrap on     *)
(* Err, or an arithmetic overflow in a build with overflow checks).        *)
(* A handler is written as a chain of operators, each passing what it      *)
(* computed to the next as arguments.                                      *)

U32Limbs == 2
U64Limbs == 4

DefaultRegisterWidth == 32

PeripheralLocals ==
    [ printed_registers_tag        |-> FALSE,
      printed_fields_tag           |-> FALSE,
      printed_enumeratedValues_tag |-> FALSE,
      register_width               |-> None,
      register_reset_value         |-> None,
      f_used_registers             |-> None,
      f_used_enumerations          |-> None ]

Step(loc, events, res) == [loc |-> loc, out |-> events, res |-> res]

\* "Some(x) => write_tag(element, x)", nothing for None.
TagIfSome(element, o) == IF IsSome(o) THEN write_tag(element, Unwrap(o)) ELSE << >>

\* The attribute loop of the "module" arm: tags are written in attribute
\* order.
ModuleAttribute(args, n, v) ==
    IF n = "id" /\ args.peripheral_only THEN write_tag("name", v)
    ELSE IF n = "value" /\ args.peripheral_only THEN write_tag("value", v)
    ELSE IF n = "description" THEN write_tag("description", v)
    ELSE << >>

RECURSIVE ModuleAttributes(_, _, _)
ModuleAttributes(args, attributes, i) ==
    IF i > Len(attributes) THEN << >>
    ELSE ModuleAttribute(args, attributes[i][1], AttrValue(args, attributes[i][2]))
         \o ModuleAttributes(args, attributes, i + 1)

\* A faulty module arm: the peripheral element opened in every run.
OpensPeripheral_always(args) == TRUE

\* Whether the "module" arm opens the peripheral element.

OpensPeripheral(args) == args.peripheral_only

StartModule(args, loc, attributes) ==
    Step([loc EXCEPT !.f_used_registers = IF args.sanitize THEN Some({}) ELSE @,
                     !.printed_registers_tag = FALSE],
         (IF OpensPeripheral(args) THEN write_start("peripheral") ELSE << >>)
            \o ModuleAttributes(args, attributes, 1),
         "running")

\* A faulty insert: the name is not recorded.
Inserted_forgets(used_registers, regname) == used_registers

\* "used_registers.insert(regname.clone())": the set after the insert.

Inserted(used_registers, regname) == used_registers \cup {regname}

\* The register name after "while !used_registers.insert(regname.clone())
\* { regname.push('_') }", and the set after the loop.
RECURSIVE unique_name(_, _)
unique_name(used_registers, regname) ==
    IF regname \notin used_registers
    THEN [name |-> regname, used |-> Inserted(used_registers, regname)]
    ELSE unique_name(used_registers, Append(regname, S_underscore))

RegisterAttributes(args, attributes) ==
    [ f_id          |-> Lookup(args, attributes, "id"),
      f_value       |-> Lookup(args, attributes, "value"),
      f_width       |-> Lookup(args, attributes, "width"),
      f_description |-> Lookup(args, attributes, "description"),
      f_rwaccess    |-> Lookup(args, attributes, "rwaccess"),
      f_offset      |-> Lookup(args, attributes, "offset"),
      f_resetval    |-> Lookup(args, attributes, "resetval") ]

\* A faulty register arm: the "resetval" attribute is parsed and then
\* dropped, the accumulator stays None.
RegisterParsed_no_seed(args, loc, f, head, w, r) ==
    IF IsSome(f.f_width) /\ ~w.ok THEN Step(loc, head, "panic")
    ELSE
    LET loc1 == IF IsSome(f.f_width) THEN [loc EXCEPT !.register_width = Some(w.v)]
                ELSE loc
        body == head
                \o TagIfSome("size", f.f_width)
                \o (IF IsSome(f.f_description) THEN write_tag("description", Unwrap(f.f_description))
                    ELSE IF IsSome(f.f_id) THEN write_tag("description", Unwrap(f.f_id))
                    ELSE write_tag("description", S_dashes))
                \o (IF IsSome(f.f_rwaccess) THEN write_access(args, Unwrap(f.f_rwaccess))
                    ELSE << >>)
    IN  IF IsSome(f.f_resetval) /\ ~r.ok THEN Step(loc1, body, "panic")
        ELSE Step(loc1, body, "running")

\* From "if let Some(width) = f_width" on; head is what was written before,
\* w and r are width.parse::<u32>() and resetval.parse::<u64>().
RegisterParsed(args, loc, f, head, w, r) ==
    IF IsSome(f.f_width) /\ ~w.ok THEN Step(loc, head, "panic")
    ELSE
    LET loc1 == IF IsSome(f.f_width) THEN [loc EXCEPT !.register_width = Some(w.v)]
                ELSE loc
        body == head
                \o TagIfSome("size", f.f_width)
                \o (IF IsSome(f.f_description) THEN write_tag("description", Unwrap(f.f_description))
                    ELSE IF IsSome(f.f_id) THEN write_tag("description", Unwrap(f.f_id))
                    ELSE write_tag("description", S_dashes))
                \o (IF IsSome(f.f_rwaccess) THEN write_access(args, Unwrap(f.f_rwaccess))
                    ELSE << >>)
    IN  IF IsSome(f.f_resetval) /\ ~r.ok THEN Step(loc1, body, "panic")
        ELSE IF IsSome(f.f_resetval)
        THEN Step([loc1 EXCEPT !.register_reset_value = Some(BitsOf(r.v))],
                  body, "running")
        ELSE Step(loc1, body, "running")

\* From the end of the attribute loop on; uniq is the unique name and the
\* set of used names when both the id and the set exist.
RegisterNamed(args, loc, f, opened, uniq) ==
    RegisterParsed(args,
        IF IsSome(f.f_id) /\ IsSome(loc.f_used_registers)
        THEN [loc EXCEPT !.f_used_registers = Some(uniq.used)] ELSE loc,
        f,
        opened
            \o (IF IsSome(f.f_id) THEN write_tag("name", uniq.name) ELSE << >>)
            \o TagIfSome("value", f.f_value)
            \o TagIfSome("addressOffset", f.f_offset),
        IF IsSome(f.f_width) THEN from_str_radix(Unwrap(f.f_width), 10, U32Limbs)
        ELSE [ok |-> TRUE],
        IF IsSome(f.f_resetval) THEN from_str_radix(Unwrap(f.f_resetval), 10, U64Limbs)
        ELSE [ok |-> TRUE])

RegisterRead(args, loc, f) ==
    RegisterNamed(args,
        [loc EXCEPT !.printed_registers_tag = TRUE,
                    !.printed_fields_tag = FALSE,
                    !.register_reset_value = None],
        f,
        (IF ~loc.printed_registers_tag THEN write_start("registers") ELSE << >>)
            \o write_start("register"),
        IF IsSome(f.f_id) /\ IsSome(loc.f_used_registers)
        THEN unique_name(Unwrap(loc.f_used_registers), Unwrap(f.f_id))
        ELSE [name |-> IF IsSome(f.f_id) THEN Unwrap(f.f_id) ELSE << >>, used |-> {}])

StartRegister(args, loc, attributes) ==
    RegisterRead(args, loc, RegisterAttributes(args, attributes))

\* A u32 used as a shift amount on a u64: the amount is out of range from
\* 64 on; a build without overflow checks then shifts by the amount mod 64.
ShiftOutOfRange(l) == l[2] # 0 \/ l[1] >= U64Bits
ShiftAmount(l) == l[1] % U64Bits

\* "f_width = Some(begin_int - end_int + 1)" when begin is given: the width
\* and whether the u32 arithmetic overflowed on the way.
PlusOne(diff) ==
    [v |-> Add(diff.v, Small(1, U32Limbs)), overflow |-> diff.overflow]

DeriveWidth(f_begin, f_width, end_int) ==
    IF IsSome(f_begin)
    THEN [f_width |-> Some(PlusOne(Sub(Unwrap(f_begin), end_int)).v.v),
          overflow |-> PlusOne(Sub(Unwrap(f_begin), end_int)).overflow
                       \/ PlusOne(Sub(Unwrap(f_begin), end_int)).v.overflow]
    ELSE [f_width |-> f_width, overflow |-> FALSE]

\* "end_int + width_int > reg_width", and whether the sum overflowed.
SumTooBig(sum, reg_width) ==
    [too_big |-> Less(reg_width, sum.v), overflow |-> sum.overflow]

FieldTooBig(end_int, width_int, reg_width) ==
    SumTooBig(Add(end_int, width_int), reg_width)

\* A faulty arm: Err also when sanitizing.
ResetvalTooBig_always_fatal(args) == "err"

\* How the arm goes on when the reset value does not fit: a message when
\* sanitizing, Err otherwise.

ResetvalTooBig(args) == IF args.sanitize THEN "running" ELSE "err"

\* The fold of a field's shifted reset value into the accumulator.
FoldResetValue(register_reset_value, shifted_reset_value) ==
    IF IsSome(register_reset_value)
    THEN Some(Unwrap(register_reset_value) \cup shifted_reset_value)
    ELSE Some(shifted_reset_value)

Packed(res, f_width, register_reset_value) ==
    [res |-> res, f_width |-> f_width, register_reset_value |-> register_reset_value]

\* "if end_int < reg_width { ... }": amount is reg_width - end_int.
PackShifted(args, overflow_checks, register_reset_value, width, end_int, reset_value, amount) ==
    IF ShiftOutOfRange(amount) /\ overflow_checks
    THEN Packed("panic", width, register_reset_value)
    ELSE IF shr(reset_value, ShiftAmount(amount)) = {}
    THEN IF ShiftOutOfRange(end_int) /\ overflow_checks
         THEN Packed("panic", width, register_reset_value)
         ELSE Packed("running", width,
                     FoldResetValue(register_reset_value,
                                    shl(reset_value, ShiftAmount(end_int))))
    ELSE Packed(ResetvalTooBig(args), width, register_reset_value)

\* "if let Some(reset_value) = f_reset_value { ... }": placed is the
\* outcome of the placement check.
PackPlaced(args, overflow_checks, reg_width, register_reset_value, width, end_int, reset_value, placed) ==
    IF placed.overflow /\ overflow_checks
    THEN Packed("panic", width, register_reset_value)
    ELSE IF placed.too_big
    THEN Packed("err", width, register_reset_value)
    ELSE IF ~Less(end_int, reg_width)
    THEN Packed("running", width, register_reset_value)
    ELSE PackShifted(args, overflow_checks, register_reset_value, width, end_int,
                     reset_value, Sub(reg_width, end_int).v)

PackDerived(args, overflow_checks, reg_width, register_reset_value, f_width, end_int, f_reset_value, derived) ==
    IF derived.overflow /\ overflow_checks
    THEN Packed("panic", f_width, register_reset_value)
    ELSE IF ~IsSome(f_reset_value)
    THEN Packed("running", derived.f_width, register_reset_value)
    ELSE PackPlaced(args, overflow_checks, reg_width, register_reset_value,
                    derived.f_width, end_int, Unwrap(f_reset_value),
                    IF IsSome(derived.f_width)
                    THEN FieldTooBig(end_int, Unwrap(derived.f_width), reg_width)
                    ELSE [too_big |-> FALSE, overflow |-> FALSE])

\* The bitfield arm from "if let Some(end_int) = f_end" to the end of that
\* block: the width derived from begin and end, the placement check, the
\* value-fit check and the fold into the register's accumulator.
\* overflow_checks says whether the build panics on arithmetic overflow
\* (a debug build) or wraps (a release build).
PackField(args, overflow_checks, register_width, register_reset_value, f_begin, f_width, f_end, f_reset_value) ==
    IF ~IsSome(f_end) THEN Packed("running", f_width, register_reset_value)
    ELSE PackDerived(args, overflow_checks,
                     IF IsSome(register_width) THEN Unwrap(register_width)
                     ELSE Small(DefaultRegisterWidth, U32Limbs),
                     register_reset_value, f_width, Unwrap(f_end), f_reset_value,
                     DeriveWidth(f_begin, f_width, Unwrap(f_end)))

\* Whether a "resetval" value is read as hexadecimal.
IsHex(value) == starts_with(value, S_0x)

\* The "resetval" attribute of a bitfield: hexadecimal after "0x", decimal
\* otherwise; a value that does not parse leaves None.
ResetvalOption(resetval) ==
    IF resetval.ok THEN Some(BitsOf(resetval.v)) ELSE None

ParseResetval(value) ==
    ResetvalOption(IF IsHex(value)
                   THEN from_str_radix(SubSeq(value, 3, Len(value)), 16, U64Limbs)
                   ELSE from_str_radix(value, 10, U64Limbs))

\* "[{}:{}] {}"
RangeDescription(begin, end, description) ==
    << "[" >> \o to_string(begin) \o << ":" >> \o to_string(end)
        \o << "]", " " >> \o description

BitfieldAttributes(args, attributes) ==
    [ f_name        |-> Lookup(args, attributes, "id"),
      f_range       |-> Lookup(args, attributes, "range"),
      s_begin       |-> Lookup(args, attributes, "begin"),
      s_width       |-> Lookup(args, attributes, "width"),
      s_end         |-> Lookup(args, attributes, "end"),
      f_description |-> Lookup(args, attributes, "description"),
      s_resetval    |-> LookupRaw(args, attributes, "resetval") ]

\* u32::from_str(&value) for an attribute that is present.
ParseU32(o) ==
    IF IsSome(o) THEN from_str_radix(Unwrap(o), 10, U32Limbs) ELSE [ok |-> TRUE, v |-> << >>]

NumOption(o, p) == IF IsSome(o) THEN Some(p.v) ELSE None

\* The tags written after the checks.
BitfieldTags(args, f, f_begin, f_end, f_width) ==
    TagIfSome("name", f.f_name)
    \o (IF IsSome(f.f_description)
        THEN IF IsSome(f_begin) /\ IsSome(f_end)
             THEN write_tag("description",
                      RangeDescription(Unwrap(f_begin), Unwrap(f_end),
                                       Unwrap(f.f_description)))
             ELSE write_tag("description",
                      IF Len(Unwrap(f.f_description)) = 0 THEN S_dashes
                      ELSE Unwrap(f.f_description))
        ELSE << >>)
    \o (IF IsSome(f_width) THEN write_tag("bitWidth", to_string(Unwrap(f_width)))
        ELSE << >>)
    \o (IF IsSome(f_end) THEN write_tag("bitOffset", to_string(Unwrap(f_end)))
        ELSE << >>)
    \o (IF ~args.sanitize THEN TagIfSome("bitRange", f.f_range) ELSE << >>)

BitfieldPacked(args, loc, f, opened, f_begin, f_end, packed) ==
    IF packed.res # "running" THEN Step(loc, opened, packed.res)
    ELSE Step([loc EXCEPT !.register_reset_value = packed.register_reset_value],
              opened \o BitfieldTags(args, f, f_begin, f_end, packed.f_width),
              "running")

BitfieldNumbers(args, overflow_checks, loc, f, opened, f_begin, f_width, f_end, f_reset_value) ==
    BitfieldPacked(args, loc, f, opened, f_begin, f_end,
        PackField(args, overflow_checks, loc.register_width,
                  loc.register_reset_value, f_begin, f_width, f_end, f_reset_value))

BitfieldParsed(args, overflow_checks, loc, f, opened, p_begin, p_width, p_end) ==
    IF ~(p_begin.ok /\ p_width.ok /\ p_end.ok) THEN Step(loc, opened, "panic")
    ELSE BitfieldNumbers(args, overflow_checks, loc, f, opened,
             NumOption(f.s_begin, p_begin), NumOption(f.s_width, p_width),
             NumOption(f.s_end, p_end),
             IF IsSome(f.s_resetval) THEN ParseResetval(Unwrap(f.s_resetval))
             ELSE None)

BitfieldRead(args, overflow_checks, loc, f) ==
    BitfieldParsed(args, overflow_checks,
        [loc EXCEPT !.printed_fields_tag = TRUE,
                    !.printed_enumeratedValues_tag = FALSE],
        f,
        (IF ~loc.printed_fields_tag THEN write_start("fields") ELSE << >>)
            \o write_start("field"),
        ParseU32(f.s_begin), ParseU32(f.s_width), ParseU32(f.s_end))

StartBitfield(args, overflow_checks, loc, attributes) ==
    BitfieldRead(args, overflow_checks, loc, BitfieldAttributes(args, attributes))

BitenumAttributes(args, attributes) ==
    [ f_id          |-> Lookup(args, attributes, "id"),
      f_value       |-> Lookup(args, attributes, "value"),
      f_description |-> Lookup(args, attributes, "description") ]

\* A faulty insert: every value taken as new.
InsertEnumeration_always_new(used_enumerations, value) ==
    [do_it |-> TRUE, used |-> used_enumerations \cup {value}]

\* "used_enumerations.insert(value.clone())": whether the value is new, and
\* the set after the insert.

InsertEnumeration(used_enumerations, value) ==
    [do_it |-> value \notin used_enumerations, used |-> used_enumerations \cup {value}]

EnumeratedValue(args, f) ==
    write_start("enumeratedValue")
    \o (IF IsSome(f.f_id) THEN write_tag("name", Unwrap(f.f_id))
        ELSE IF args.sanitize THEN write_tag("name", Unwrap(f.f_value))
        ELSE << >>)
    \o write_tag("value", Unwrap(f.f_value))
    \o (IF IsSome(f.f_description)
        THEN write_tag("description",
                 IF Len(Unwrap(f.f_description)) = 0 THEN S_dashes
                 ELSE Unwrap(f.f_description))
        ELSE << >>)
    \o write_end

\* "if let Some(value) = f_value { ... }"; ins is the outcome of the insert
\* when the set exists.
BitenumInserted(args, loc, f, opened, ins) ==
    IF ~IsSome(f.f_value) THEN Step(loc, opened, "running")
    ELSE IF ~IsSome(loc.f_used_enumerations)
    THEN Step(loc, opened \o EnumeratedValue(args, f), "running")
    ELSE Step([loc EXCEPT !.f_used_enumerations = Some(ins.used)],
              IF ins.do_it THEN opened \o EnumeratedValue(args, f) ELSE opened,
              "running")

BitenumOpened(args, loc, f, opened) ==
    BitenumInserted(args, loc, f, opened,
        IF IsSome(f.f_value) /\ IsSome(loc.f_used_enumerations)
        THEN InsertEnumeration(Unwrap(loc.f_used_enumerations), Unwrap(f.f_value))
        ELSE [do_it |-> TRUE, used |-> {}])

BitenumRead(args, loc, f) ==
    IF ~loc.printed_enumeratedValues_tag
    THEN BitenumOpened(args,
             [loc EXCEPT !.printed_enumeratedValues_tag = TRUE,
                         !.f_used_enumerations = IF args.sanitize THEN Some({}) ELSE @],
             f, write_start("enumeratedValues"))
    ELSE BitenumOpened(args, loc, f, << >>)

StartBitenum(args, loc, attributes) ==
    BitenumRead(args, loc, BitenumAttributes(args, attributes))

\* A faulty arm: the registers group left open.
EndModule_group_open(args, loc) ==
    Step([loc EXCEPT !.f_used_registers = None,
                     !.printed_registers_tag = FALSE],
         IF args.peripheral_only THEN write_end ELSE << >>,
         "running")

EndModule(args, loc) ==
    Step([loc EXCEPT !.f_used_registers = None,
                     !.printed_registers_tag = FALSE],
         (IF loc.printed_registers_tag THEN write_end ELSE << >>)
            \o (IF args.peripheral_only THEN write_end ELSE << >>),
         "running")

\* A faulty arm: the resetValue written before the fields group is closed.
EndRegister_reset_first(args, loc) ==
    Step([loc EXCEPT !.printed_fields_tag = FALSE,
                     !.register_width = None],
         (IF IsSome(loc.register_reset_value)
          THEN write_tag("resetValue",
                         S_0x \o UpperHex(Unwrap(loc.register_reset_value)))
          ELSE write_tag("resetValue", S_0))
            \o (IF loc.printed_fields_tag THEN write_end ELSE << >>)
            \o write_end,
         "running")

EndRegister(args, loc) ==
    Step([loc EXCEPT !.printed_fields_tag = FALSE,
                     !.register_width = None],
         (IF loc.printed_fields_tag THEN write_end ELSE << >>)
            \o (IF IsSome(loc.register_reset_value)
                THEN write_tag("resetValue",
                               S_0x \o UpperHex(Unwrap(loc.register_reset_value)))
                ELSE write_tag("resetValue", S_0))
            \o write_end,
         "running")

\* A faulty arm: the enumeratedValues group left open.
EndBitfield_group_open(args, loc) ==
    Step(IF loc.printed_enumeratedValues_tag
         THEN [loc EXCEPT !.printed_enumeratedValues_tag = FALSE,
                          !.f_used_enumerations = None]
         ELSE loc,
         write_end,
         "running")

EndBitfield(args, loc) ==
    Step(IF loc.printed_enumeratedValues_tag
         THEN [loc EXCEPT !.printed_enumeratedValues_tag = FALSE,
                          !.f_used_enumerations = None]
         ELSE loc,
         (IF loc.printed_enumeratedValues_tag THEN write_end ELSE << >>)
            \o write_end,
         "running")

\* A faulty loop body: an element it does not know ends the conversion.
PeripheralEvent_unknown_fatal(args, overflow_checks, loc, e) ==
    IF e.kind = "start"
    THEN IF e.name = "module" THEN StartModule(args, loc, e.attrs)
         ELSE IF e.name = "register" THEN StartRegister(args, loc, e.attrs)
         ELSE IF e.name = "bitfield"
              THEN StartBitfield(args, overflow_checks, loc, e.attrs)
         ELSE IF e.name = "bitenum" THEN StartBitenum(args, loc, e.attrs)
         ELSE Step(loc, << >>, "err")
    ELSE IF e.kind = "end"
    THEN IF e.name = "module" THEN EndModule(args, loc)
         ELSE IF e.name = "register" THEN EndRegister(args, loc)
         ELSE IF e.name = "bitfield" THEN EndBitfield(args, loc)
         ELSE Step(loc, << >>, "running")
    ELSE IF e.kind = "error" THEN Step(loc, << >>, "err")
    ELSE Step(loc, << >>, "running")

\* One iteration of "for e in parser" in process_peripheral_base.
PeripheralEvent(args, overflow_checks, loc, e) ==
    IF e.kind = "start"
    THEN IF e.name = "module" THEN StartModule(args, loc, e.attrs)
         ELSE IF e.name = "register" THEN StartRegister(args, loc, e.attrs)
         ELSE IF e.name = "bitfield"
              THEN StartBitfield(args, overflow_checks, loc, e.attrs)
         ELSE IF e.name = "bitenum" THEN StartBitenum(args, loc, e.attrs)
         ELSE Step(loc, << >>, "running")
    ELSE IF e.kind = "end"
    THEN IF e.name = "module" THEN EndModule(args, loc)
         ELSE IF e.name = "register" THEN EndRegister(args, loc)
         ELSE IF e.name = "bitfield" THEN EndBitfield(args, loc)
         ELSE Step(loc, << >>, "running")
    ELSE IF e.kind = "error" THEN Step(loc, << >>, "err")
    ELSE Step(loc, << >>, "running")

\* process_peripheral_base on a whole event stream: the loop runs until the
\* stream ends (Ok) or a handler leaves it.  run is [loc, out, res] so far.
RECURSIVE PeripheralRun(_, _, _, _, _)
PeripheralAfter(written, r) == Step(r.loc, written \o r.out, r.res)

PeripheralRun(args, overflow_checks, events, i, run) ==
    IF run.res # "running" THEN [out |-> run.out, res |-> run.res]
    ELSE IF i > Len(events) THEN [out |-> run.out, res |-> "ok"]
    ELSE PeripheralRun(args, overflow_checks, events, i + 1,
             PeripheralAfter(run.out,
                 PeripheralEvent(args, overflow_checks, run.loc, events[i])))

process_peripheral_base(args, overflow_checks, events) ==
    PeripheralRun(args, overflow_checks, events, 1,
                  Step(PeripheralLocals, << >>, "running"))

---------------------------------------------------------------------------
(* process_device_base and the functions it calls.                         *)

S_unknown_cpu == << "[", "u", "n", "k", "n", "o", "w", "n", " ", "C", "P", "U", "]" >>
S_0_0 == << "0", ".", "0" >>
S_other == << "o", "t", "h", "e", "r" >>
S_Cortex_ == << "C", "o", "r", "t", "e", "x", "_" >>
S_C == << "C" >>
S_stringfield == << "s", "t", "r", "i", "n", "g", "f", "i", "e", "l", "d" >>
S_Endianness == << "E", "n", "d", "i", "a", "n", "n", "e", "s", "s" >>
S_Modules == << ".", ".", "/", "M", "o", "d", "u", "l", "e", "s", "/" >>
S_registers == << "r", "e", "g", "i", "s", "t", "e", "r", "s" >>
S_created == << "C", "r", "e", "a", "t", "e", "d", " ", "b", "y", " ",
                "t", "i", "x", "m", "l", "2", "s", "v", "d", ";", " ",
                "h", "t", "t", "p", "s", ":", "/", "/", "g", "i", "t", "h", "u", "b",
                ".", "c", "o", "m", "/", "d", "h", "o", "o", "v", "e", "/",
                "t", "i", "x", "m", "l", "2", "s", "v", "d" >>

\* The attribute loops of generate_device: no trimming there.
RECURSIVE LookupPlainFrom(_, _, _, _)
LookupPlainFrom(attributes, n, i, found) ==
    IF i > Len(attributes) THEN found
    ELSE LookupPlainFrom(attributes, n, i + 1,
             IF attributes[i][1] = n /\ Len(attributes[i][2]) > 0
             THEN Some(attributes[i][2]) ELSE found)

LookupPlain(attributes, n) == LookupPlainFrom(attributes, n, 1, None)

OrElse(o, default) == IF IsSome(o) THEN Unwrap(o) ELSE default

DeviceTags(f_id, f_description, f_hw_revision, f_isa, endianness) ==
    write_tag("name", OrElse(f_id, S_unknown_cpu))
    \o write_tag("version", OrElse(f_hw_revision, S_0_0))
    \o write_tag("description", OrElse(f_description, << >>))
    \o write_start("cpu")
    \o write_tag("name", OrElse(f_isa, S_other))
    \o write_tag("revision", OrElse(f_hw_revision, S_0_0))
    \o write_tag("endian", OrElse(endianness, S_other))
    \o write_tag("mpuPresent", << "t", "r", "u", "e" >>)
    \o write_tag("fpuPresent", << "t", "r", "u", "e" >>)
    \o write_tag("nvicPrioBits", << "3" >>)
    \o write_tag("vendorSystickConfig", << "f", "a", "l", "s", "e" >>)
    \o write_end
    \o write_tag("addressUnitBits", << "8" >>)
    \o write_tag("width", << "3", "2" >>)
    \o write_tag("size", << "3", "2" >>)
    \o write_tag("access", S_read_write)
    \o write_tag("resetValue", << "0", "x", "0", "0", "0", "0", "0", "0", "0", "0" >>)
    \o write_tag("resetMask", << "0", "x", "F", "F", "F", "F", "F", "F", "F", "F" >>)

IsaName(args, isa) ==
    IF IsSome(isa) /\ args.sanitize
    THEN Some(replace(Unwrap(isa), S_Cortex_, S_C)) ELSE isa

\* A faulty generate_device: no_device_info not looked at.
generate_device_always(args, device_attributes, cpu_attributes, endianness) ==
    DeviceTags(LookupPlain(device_attributes, "id"),
               LookupPlain(device_attributes, "description"),
               LookupPlain(cpu_attributes, "HW_revision"),
               IsaName(args, LookupPlain(cpu_attributes, "isa")),
               endianness)

generate_device(args, device_attributes, cpu_attributes, endianness) ==
    IF args.no_device_info THEN << >>
    ELSE DeviceTags(LookupPlain(device_attributes, "id"),
                    LookupPlain(device_attributes, "description"),
                    LookupPlain(cpu_attributes, "HW_revision"),
                    IsaName(args, LookupPlain(cpu_attributes, "isa")),
                    endianness)

EndiannessOf(f_type, f_id, f_value) ==
    IF f_type = Some(S_stringfield) /\ f_id = Some(S_Endianness)
    THEN f_value ELSE None

check_endianness(args, attributes) ==
    EndiannessOf(Lookup(args, attributes, "Type"),
                 Lookup(args, attributes, "id"),
                 Lookup(args, attributes, "Value"))

DeviceLocals ==
    [ printed_peripherals_tag |-> TRUE,
      in_cpu_tag              |-> FALSE,
      cpunum                  |-> 0,
      endianness              |-> None,
      device_attributes       |-> << >> ]

StartDevice(args, loc, attributes) ==
    Step([loc EXCEPT !.device_attributes = attributes],
         write_start("device") \o write_comment(S_created),
         "running")

StartCpu(args, loc, attributes) ==
    IF loc.cpunum # args.cpunum
    THEN Step([loc EXCEPT !.in_cpu_tag = TRUE], << >>, "running")
    ELSE Step([loc EXCEPT !.in_cpu_tag = TRUE, !.printed_peripherals_tag = FALSE],
              generate_device(args, loc.device_attributes, attributes, loc.endianness),
              "running")

\* A faulty arm: properties outside every cpu element looked at too.
StartProperty_outside_cpu(args, loc, attributes) ==
    Step([loc EXCEPT !.endianness =
              IF IsSome(@) THEN @ ELSE check_endianness(args, attributes)],
         << >>, "running")

StartProperty(args, loc, attributes) ==
    IF ~loc.in_cpu_tag THEN Step(loc, << >>, "running")
    ELSE Step([loc EXCEPT !.endianness =
                   IF IsSome(@) THEN @ ELSE check_endianness(args, attributes)],
              << >>, "running")

\* The "instance" arm.  fs is the resolver fname2parser: for an href, either
\* [ok |-> FALSE] (the file cannot be opened) or the events of the file.
InstanceAttributes(args, attributes) ==
    [ f_baseaddr |-> Lookup(args, attributes, "baseaddr"),
      f_size     |-> Lookup(args, attributes, "size"),
      id         |-> Lookup(args, attributes, "id"),
      f_href     |-> Lookup(args, attributes, "href") ]

fname2parser(fs, href) ==
    IF href \in DOMAIN fs THEN fs[href] ELSE [ok |-> FALSE]

\* A faulty arm: the Err of process_peripheral_base dropped.
InstanceNested_ignores_error(loc, head, nested) ==
    Step(loc, head \o nested.out \o write_end,
         IF nested.res = "panic" THEN "panic" ELSE "running")

\* What follows process_peripheral_base(...)? in the arm.
InstanceNested(loc, head, nested) ==
    IF nested.res # "ok" THEN Step(loc, head \o nested.out, nested.res)
    ELSE Step(loc, head \o nested.out \o write_end, "running")

InstanceResolved(args, overflow_checks, loc, head, parser) ==
    IF ~parser.ok THEN Step(loc, head, "err")
    ELSE InstanceNested(loc, head,
             process_peripheral_base(args, overflow_checks, parser.events))

\* A faulty arm: the addressBlock written before the baseAddress.
InstanceAccepted_block_first(args, overflow_checks, fs, loc, f, f_id) ==
    InstanceResolved(args, overflow_checks,
        [loc EXCEPT !.printed_peripherals_tag = TRUE],
        (IF ~loc.printed_peripherals_tag THEN write_start("peripherals") ELSE << >>)
            \o write_start("peripheral")
            \o write_tag("name", f_id)
            \o (IF IsSome(f.f_size)
                THEN write_start("addressBlock")
                     \o write_tag("offset", S_0)
                     \o write_tag("size", Unwrap(f.f_size))
                     \o write_tag("usage", S_registers)
                     \o write_end
                ELSE << >>)
            \o TagIfSome("baseAddress", f.f_baseaddr),
        fname2parser(fs, Unwrap(f.f_href)))

InstanceAccepted(args, overflow_checks, fs, loc, f, f_id) ==
    InstanceResolved(args, overflow_checks,
        [loc EXCEPT !.printed_peripherals_tag = TRUE],
        (IF ~loc.printed_peripherals_tag THEN write_start("peripherals") ELSE << >>)
            \o write_start("peripheral")
            \o write_tag("name", f_id)
            \o TagIfSome("baseAddress", f.f_baseaddr)
            \o (IF IsSome(f.f_size)
                THEN write_start("addressBlock")
                     \o write_tag("offset", S_0)
                     \o write_tag("size", Unwrap(f.f_size))
                     \o write_tag("usage", S_registers)
                     \o write_end
                ELSE << >>),
        fname2parser(fs, Unwrap(f.f_href)))

\* A faulty arm: any href accepted.
InstanceRead_any_href(args, overflow_checks, fs, loc, f, f_id) ==
    IF ~IsSome(f_id) \/ ~IsSome(f.f_href) THEN Step(loc, << >>, "running")
    ELSE IF Len(Unwrap(f_id)) = 0 THEN Step(loc, << >>, "running")
    ELSE InstanceAccepted(args, overflow_checks, fs, loc, f, Unwrap(f_id))

\* From "let skip = ..." on; f_id is the id after the replacement.
InstanceRead(args, overflow_checks, fs, loc, f, f_id) ==
    IF ~IsSome(f_id) THEN Step(loc, << >>, "running")
    ELSE IF (IF IsSome(f.f_href) THEN ~starts_with(Unwrap(f.f_href), S_Modules)
             ELSE TRUE)
    THEN Step(loc, << >>, "running")
    ELSE IF Len(Unwrap(f_id)) = 0 THEN Step(loc, << >>, "running")
    ELSE InstanceAccepted(args, overflow_checks, fs, loc, f, Unwrap(f_id))

InstanceId(args, id) ==
    IF IsSome(id) /\ args.sanitize
    THEN Some(replace(Unwrap(id), << "-" >>, << "_" >>)) ELSE id

InstanceInCpu(args, overflow_checks, fs, loc, f) ==
    InstanceRead(args, overflow_checks, fs, loc, f, InstanceId(args, f.id))

\* A faulty test: the index of the cpu not compared.
SkipsInstance_any_cpu(args, loc) == ~loc.in_cpu_tag

\* "if !in_cpu_tag | (cpunum != args.cpunum) { continue; }"

SkipsInstance(args, loc) == ~loc.in_cpu_tag \/ loc.cpunum # args.cpunum

StartInstance(args, overflow_checks, fs, loc, attributes) ==
    IF SkipsInstance(args, loc) THEN Step(loc, << >>, "running")
    ELSE InstanceInCpu(args, overflow_checks, fs, loc,
                       InstanceAttributes(args, attributes))

EndDevice(args, loc) == Step(loc, write_end, "running")

\* A faulty arm: the cpu index stays as it is.
EndCpu_no_advance(args, loc) ==
    Step([loc EXCEPT !.printed_peripherals_tag =
                         IF loc.cpunum = args.cpunum THEN TRUE ELSE @,
                     !.in_cpu_tag = FALSE],
         IF loc.cpunum = args.cpunum /\ loc.printed_peripherals_tag
         THEN write_end ELSE << >>,
         "running")

EndCpu(args, loc) ==
    Step([loc EXCEPT !.printed_peripherals_tag =
                         IF loc.cpunum = args.cpunum THEN TRUE ELSE @,
                     !.in_cpu_tag = FALSE,
                     !.cpunum = @ + 1],
         IF loc.cpunum = args.cpunum /\ loc.printed_peripherals_tag
         THEN write_end ELSE << >>,
         "running")

\* One iteration of "for e in parser" in process_device_base.
DeviceEvent(args, overflow_checks, fs, loc, e) ==
    IF e.kind = "start"
    THEN IF e.name = "device" THEN StartDevice(args, loc, e.attrs)
         ELSE IF e.name = "cpu" THEN StartCpu(args, loc, e.attrs)
         ELSE IF e.name = "property" THEN StartProperty(args, loc, e.attrs)
         ELSE IF e.name = "instance"
              THEN StartInstance(args, overflow_checks, fs, loc, e.attrs)
         ELSE Step(loc, << >>, "running")
    ELSE IF e.kind = "end"
    THEN IF e.name = "device" THEN EndDevice(args, loc)
         ELSE IF e.name = "cpu" THEN EndCpu(args, loc)
         ELSE Step(loc, << >>, "running")
    ELSE IF e.kind = "error" THEN Step(loc, << >>, "err")
    ELSE Step(loc, << >>, "running")

---------------------------------------------------------------------------
(* The program as a state machine.                                         *)

VARIABLES
    args,            \* the Args main_ builds from the command line
    overflow_checks, \* the build: arithmetic overflow panics (TRUE) or wraps
    mode,            \* "peripheral" or "device": the transducer main_ calls
    per,             \* the locals of the top-level process_peripheral_base
    dev,             \* the locals of process_device_base
    out,             \* the events written to xml_out so far
    result,          \* "running", "ok" (Ok(())), "err" (Err), "panic"
    inp,             \* the input events the loop has taken so far
    reader_open,     \* the reader's stack of open elements
    reader_root      \* whether the root element was opened

vars == << args, overflow_checks, mode, per, dev, out, result, inp,
           reader_open, reader_root >>

\* Args::new with the fields main_ passes.
Args(silent, verbose, peripheral_only, sanitize, no_device_info, cpunum) ==
    [ silent |-> silent, verbose |-> verbose, peripheral_only |-> peripheral_only,
      sanitize |-> sanitize, no_device_info |-> no_device_info, cpunum |-> cpunum ]

\* main_: process_peripheral when "peripheral" is given, else process_device.
Dispatch(a) == IF a.peripheral_only THEN "peripheral" ELSE "device"

\* The peripheral files the resolver can open (none in a peripheral-only run).
NoFiles == << >>

Start(a, oc) ==
    /\ args = a
    /\ overflow_checks = oc
    /\ mode = Dispatch(a)
    /\ per = PeripheralLocals
    /\ dev = DeviceLocals
    /\ out = << >>
    /\ result = "running"
    /\ inp = << >>
    /\ reader_open = << >>
    /\ reader_root = FALSE

\* The nesting level of an element in the vendor format; 0 for an element
\* the format does not know.
Level(n) ==
    IF n \in {"module", "device"} THEN 1
    ELSE IF n \in {"register", "cpu"} THEN 2
    ELSE IF n \in {"bitfield", "instance", "property"} THEN 3
    ELSE IF n = "bitenum" THEN 4
    ELSE 0

\* The reader can deliver e next.
Readable(e) ==
    IF e.kind = "start"
    THEN /\ reader_open = << >> => ~reader_root
         /\ Level(e.name) > 0 =>
                \A i \in 1..Len(reader_open) : Level(reader_open[i]) < Level(e.name)
    ELSE IF e.kind = "end"
    THEN reader_open # << >> /\ reader_open[Len(reader_open)] = e.name
    ELSE TRUE

\* One iteration of the loop of the transducer that runs: it takes e from
\* the reader and handles it; r is what the handler returns.
Handle(e, fs) ==
    IF mode = "peripheral"
    THEN PeripheralEvent(args, overflow_checks, per, e)
    ELSE DeviceEvent(args, overflow_checks, fs, dev, e)

Taken(e, r) ==
    /\ per' = IF mode = "peripheral" THEN r.loc ELSE per
    /\ dev' = IF mode = "device" THEN r.loc ELSE dev
    /\ out' = out \o r.out
    /\ result' = r.res
    /\ inp' = Append(inp, e)
    /\ reader_open' =
           IF e.kind = "start" THEN Append(reader_open, e.name)
           ELSE IF e.kind = "end" THEN SubSeq(reader_open, 1, Len(reader_open) - 1)
           ELSE reader_open
    /\ reader_root' = (reader_root \/ e.kind = "start")
    /\ UNCHANGED << args, overflow_checks, mode >>

Deliver(e, fs) ==
    /\ result = "running"
    /\ Readable(e)
    /\ Taken(e, Handle(e, fs))

\* The reader reaches the end of the document: the loop ends and the
\* transducer returns Ok(()).
Finish ==
    /\ result = "running"
    /\ reader_open = << >>
    /\ reader_root
    /\ result' = "ok"
    /\ UNCHANGED << args, overflow_checks, mode, per, dev, out, inp,
                    reader_open, reader_root >>

\* The element the reader closes next.
Close(fs) ==
    /\ reader_open # << >>
    /\ Deliver(EndElement(reader_open[Len(reader_open)]), fs)

---------------------------------------------------------------------------
(* Peripheral documents about reset-value packing: registers with and      *)
(* without a width and a reset value, bitfields that fit, that do not fit   *)
(* and that lack attributes.                                               *)

MaxPackEvents == 5

PackModuleAttrs == { << Attr("id", << "M" >>) >> }

PackRegisterAttrs ==
    { << >>,
      << Attr("width", << "8" >>) >>,
      << Attr("width", << "8" >>), Attr("resetval", << "2", "5", "6" >>) >>,
      << Attr("width", << "6", "4" >>) >> }

PackBitfieldAttrs ==
    { << Attr("end", << "0" >>), Attr("width", << "4" >>),
         Attr("resetval", << "0", "x", "5" >>) >>,
      << Attr("id", << "B" >>), Attr("end", << "4" >>), Attr("width", << "4" >>),
         Attr("resetval", << "0", "x", "A" >>) >>,
      << Attr("end", << "6" >>), Attr("width", << "4" >>),
         Attr("resetval", << "1" >>) >>,
      << Attr("end", << "6" >>), Attr("width", << "4" >>) >>,
      << Attr("id", << "F" >>), Attr("end", << "4" >>), Attr("width", << "4" >>),
         Attr("resetval", << "0", "x", "1", "F" >>) >>,
      << Attr("begin", << "7" >>), Attr("end", << "4" >>), Attr("width", << "2" >>),
         Attr("resetval", << "1", "0" >>) >>,
      << Attr("begin", << "0" >>), Attr("end", << "4" >>),
         Attr("resetval", << "1" >>) >>,
      << Attr("end", << "8" >>), Attr("resetval", << "1" >>) >>,
      << Attr("end", << "8" >>), Attr("width", << "0" >>),
         Attr("resetval", << "0" >>) >>,
      << Attr("end", << "0" >>), Attr("resetval", << "0", "x", "1" >>) >>,
      << Attr("end", << "6", "0" >>), Attr("width", << "4" >>),
         Attr("resetval", << "0", "x", "F" >>) >>,
      << Attr("end", << "0" >>), Attr("width", << "4" >>),
         Attr("resetval", << "0", "X", "1", "F" >>) >> }

PackArgs == { Args(FALSE, 0, TRUE, z, FALSE, 0) : z \in BOOLEAN }

PackInit == \E a \in PackArgs, oc \in BOOLEAN : Start(a, oc)

PackModule ==
    /\ Len(inp) < MaxPackEvents
    /\ \E a \in PackModuleAttrs : Deliver(StartElement("module", a), NoFiles)

PackRegister ==
    /\ Len(inp) < MaxPackEvents
    /\ \E a \in PackRegisterAttrs : Deliver(StartElement("register", a), NoFiles)

PackBitfield ==
    /\ Len(inp) < MaxPackEvents
    /\ \E a \in PackBitfieldAttrs : Deliver(StartElement("bitfield", a), NoFiles)

PackClose == Close(NoFiles)

PackNext == PackModule \/ PackRegister \/ PackBitfield \/ PackClose \/ Finish

SpecPack == PackInit /\ [][PackNext]_vars

---------------------------------------------------------------------------
(* Reading a run: the event a step takes, what it writes, and the          *)
(* attributes of an input element as the vendor document states them.      *)

Last(s) == s[Len(s)]

\* The step takes one event from the reader.
Takes == Len(inp') = Len(inp) + 1

\* The step takes the start of an element named n.
TakesStart(n) ==
    Takes /\ Last(inp').kind = "start" /\ Last(inp').name = n

\* The output events the step writes.
Written == SubSeq(out', Len(out) + 1, Len(out'))

IsStart(e, n) == e.kind = "start" /\ e.name = n

HasAttr(e, n) == \E i \in 1..Len(e.attrs) : e.attrs[i][1] = n

\* The text of attribute n of element e, without surrounding white space
\* when sanitizing.
Text(e, n) ==
    LET raw == e.attrs[CHOOSE i \in 1..Len(e.attrs) : e.attrs[i][1] = n][2]
    IN  IF args.sanitize THEN trim(raw) ELSE raw

Given(e, n) == HasAttr(e, n) /\ Len(Text(e, n)) > 0

DigitSet == { Digits[i] : i \in 1..Len(Digits) }
HexDigitSet == { HexUpper[i] : i \in 1..Len(HexUpper) }
               \cup { HexLower[i] : i \in 1..Len(HexLower) }

HexDigitValue(c) ==
    IF IndexOf(HexUpper, c) >= 0 THEN IndexOf(HexUpper, c) ELSE IndexOf(HexLower, c)

\* The number a string of digits of the radix denotes (small numbers).
RECURSIVE NumberOf(_, _)
NumberOf(s, radix) ==
    IF s = << >> THEN 0
    ELSE radix * NumberOf(SubSeq(s, 1, Len(s) - 1), radix) + HexDigitValue(Last(s))

IsDecimal(s) == Len(s) > 0 /\ \A i \in 1..Len(s) : s[i] \in DigitSet
IsHexadecimal(s) ==
    /\ Len(s) > 2 /\ s[1] = "0" /\ s[2] = "x"
    /\ \A i \in 3..Len(s) : s[i] \in HexDigitSet

\* A reset value written as decimal digits or as "0x" and hex digits.
IsResetText(s) == IsDecimal(s) \/ IsHexadecimal(s)
ResetNumber(s) ==
    IF IsDecimal(s) THEN NumberOf(s, 10) ELSE NumberOf(SubSeq(s, 3, Len(s)), 16)

\* The one-bits of a small number, and of a number moved up by n bits.
BitsOfNumber(n) == { b \in 0..30 : (n \div (2 ^ b)) % 2 = 1 }
MovedUp(bits, n) == { b + n : b \in bits }

\* value < 2^k
Below(value, k) == k > 30 \/ value < 2 ^ k

\* The register the reader is in: the index in inp of its start, and its
\* width (the width attribute, 32 without one).
InRegister == \E i \in 1..Len(reader_open) : reader_open[i] = "register"

RegisterStart(h) ==
    CHOOSE i \in 1..Len(h) :
        /\ IsStart(h[i], "register")
        /\ \A j \in (i + 1)..Len(h) : ~IsStart(h[j], "register")

WidthOf(register) ==
    IF Given(register, "width") THEN NumberOf(Text(register, "width"), 10) ELSE 32

\* The width of the register around the next event: of the open register,
\* 32 outside every register.
RegisterWidthHere ==
    IF InRegister THEN WidthOf(inp[RegisterStart(inp)]) ELSE 32

\* A bitfield that states end, width (at least 1) and a reset value, and no
\* begin.
PlainField(e) ==
    /\ IsStart(e, "bitfield")
    /\ Given(e, "end") /\ IsDecimal(Text(e, "end"))
    /\ Given(e, "width") /\ IsDecimal(Text(e, "width"))
    /\ HasAttr(e, "resetval") /\ IsResetText(Text(e, "resetval"))
    /\ ~HasAttr(e, "begin")

FieldEnd(e) == NumberOf(Text(e, "end"), 10)
FieldWidth(e) == NumberOf(Text(e, "width"), 10)
FieldReset(e) == ResetNumber(Text(e, "resetval"))

\* end + width <= registerWidth and resetValue < 2^(registerWidth - end)
FitsRegister(e, width) ==
    /\ FieldWidth(e) >= 1
    /\ FieldEnd(e) + FieldWidth(e) <= width
    /\ Below(FieldReset(e), width - FieldEnd(e))

\* The bitfields of the register that starts at inp[r].
FieldsSince(r) == { i \in (r + 1)..Len(inp) : IsStart(inp[i], "bitfield") }

\* A register without a reset value of its own in which every bitfield so
\* far is a plain field that fits.
FittingRegister(r) ==
    /\ ~HasAttr(inp[r], "resetval")
    /\ \A i \in FieldsSince(r) :
           PlainField(inp[i]) /\ FitsRegister(inp[i], WidthOf(inp[r]))

PackedBits(r) ==
    UNION { MovedUp(BitsOfNumber(FieldReset(inp[i])), FieldEnd(inp[i])) :
                i \in FieldsSince(r) }

\* The one-bits of the number a text of upper-case hex digits denotes.
HexTextBits(t) ==
    { 4 * (Len(t) - i) + j : i \in 1..Len(t), j \in 0..3 } \cap
    { b \in 0..(4 * Len(t) - 1) :
        (IndexOf(HexUpper, t[Len(t) - (b \div 4)]) \div (2 ^ (b % 4))) % 2 = 1 }

\* t is "0x" and the upper-case hexadecimal of the number with these bits.
IsHexLiteralOf(t, bits) ==
    /\ Len(t) > 2 /\ t[1] = "0" /\ t[2] = "x"
    /\ \A i \in 3..Len(t) : IndexOf(HexUpper, t[i]) >= 0
    /\ Len(t) > 3 => t[3] # "0"
    /\ HexTextBits(SubSeq(t, 3, Len(t))) = bits

\* The text of the resetValue tag a register close has just written.
ClosedRegister ==
    /\ Len(inp) > 0 /\ Last(inp) = EndElement("register")
    /\ Len(out) >= 4 /\ out[Len(out) - 3] = StartTag("resetValue")

EmittedResetValue == out[Len(out) - 2].s

---------------------------------------------------------------------------
(* Reset-value packing (SpecPack).                                         *)

\* C1, as the specification states it: in a register in which every
\* bitfield states end, width and a reset value with end + width <=
\* registerWidth and resetValue < 2^(registerWidth - end), the conversion
\* gets to the register's close and the resetValue written there is "0x"
\* and the upper-case hexadecimal of the OR of resetValue << end over the
\* fields, or "0" when the register has no field.
C1_PackingCorrectness ==
    /\ (InRegister /\ FittingRegister(RegisterStart(inp))) => result = "running"
    /\ (ClosedRegister /\ FittingRegister(RegisterStart(inp))) =>
           IF FieldsSince(RegisterStart(inp)) = {}
           THEN EmittedResetValue = << "0" >>
           ELSE IsHexLiteralOf(EmittedResetValue, PackedBits(RegisterStart(inp)))

\* C2, as the specification states it: every bitfield whose end + width
\* exceeds the width of its register makes the conversion return an error,
\* with or without --sanitize and whether or not the field has a reset
\* value.
C2_PlacementUnconditional ==
    [][ ( /\ TakesStart("bitfield")
          /\ Given(Last(inp'), "end") /\ IsDecimal(Text(Last(inp'), "end"))
          /\ Given(Last(inp'), "width") /\ IsDecimal(Text(Last(inp'), "width"))
          /\ ~HasAttr(Last(inp'), "begin")
          /\ FieldEnd(Last(inp')) + FieldWidth(Last(inp')) > RegisterWidthHere )
        => result' = "err" ]_vars

\* The outcome C3 describes for a field whose reset value does not fit:
\* Err without --sanitize; with it the conversion goes on, the accumulator
\* is as before and the field's tags are written.
Downgraded ==
    IF ~args.sanitize THEN result' = "err"
    ELSE /\ result' = "running"
         /\ per'.register_reset_value = per.register_reset_value
         /\ \E i \in 1..Len(Written) : Written[i] = StartTag("bitOffset")
         /\ Given(Last(inp'), "width") =>
                \E i \in 1..Len(Written) : Written[i] = StartTag("bitWidth")
         /\ Given(Last(inp'), "id") =>
                \E i \in 1..Len(Written) : Written[i] = StartTag("name")

\* The step takes a bitfield with an end and a reset value that passes the
\* placement check.
TakesPlacedField ==
    /\ TakesStart("bitfield")
    /\ Given(Last(inp'), "end") /\ IsDecimal(Text(Last(inp'), "end"))
    /\ HasAttr(Last(inp'), "resetval") /\ IsResetText(Text(Last(inp'), "resetval"))
    /\ ~HasAttr(Last(inp'), "begin")
    /\ Given(Last(inp'), "width") =>
           /\ IsDecimal(Text(Last(inp'), "width"))
           /\ FieldEnd(Last(inp')) + FieldWidth(Last(inp')) <= RegisterWidthHere

C8_RegisterScope ==
    (mode = "peripheral" /\ InRegister /\ IsSome(per.register_reset_value)) =>
        \A b \in Unwrap(per.register_reset_value) : b < RegisterWidthHere

---------------------------------------------------------------------------
(* Register names (SpecNames): peripheral documents whose registers share  *)
(* ids, in one module and in two modules under a common root.              *)

MaxNamesEvents == 7

S_CTRL == << "C", "T", "R", "L" >>

NamesRegisterAttrs ==
    { << >>,
      << Attr("id", S_CTRL) >>,
      << Attr("id", << " " >> \o S_CTRL) >>,
      << Attr("id", S_CTRL \o << "_" >>) >> }

NamesArgs == { Args(FALSE, 0, TRUE, z, FALSE, 0) : z \in BOOLEAN }

NamesInit == \E a \in NamesArgs, oc \in BOOLEAN : Start(a, oc)

NamesRoot ==
    /\ Len(inp) < MaxNamesEvents
    /\ Deliver(StartElement("group", << >>), NoFiles)

NamesModule ==
    /\ Len(inp) < MaxNamesEvents
    /\ Deliver(StartElement("module", << >>), NoFiles)

NamesRegister ==
    /\ Len(inp) < MaxNamesEvents
    /\ \E a \in NamesRegisterAttrs : Deliver(StartElement("register", a), NoFiles)

NamesClose == Close(NoFiles)

NamesNext == NamesRoot \/ NamesModule \/ NamesRegister \/ NamesClose \/ Finish

SpecNames == NamesInit /\ [][NamesNext]_vars

\* The members of a set of numbers in ascending order.
RECURSIVE Ascending(_)
Ascending(S) ==
    IF S = {} THEN << >>
    ELSE LET m == CHOOSE x \in S : \A y \in S : x <= y
         IN  << m >> \o Ascending(S \ {m})

Count(x, s) == Cardinality({ i \in 1..Len(s) : s[i] = x })

InModule == \E i \in 1..Len(reader_open) : reader_open[i] = "module"

\* The index of the last start of an element named n in h, 0 without one.
LastStart(h, n) ==
    IF \E i \in 1..Len(h) : IsStart(h[i], n)
    THEN CHOOSE i \in 1..Len(h) :
             IsStart(h[i], n) /\ \A j \in (i + 1)..Len(h) : ~IsStart(h[j], n)
    ELSE 0

LastWritten(x) ==
    IF \E i \in 1..Len(out) : out[i] = x
    THEN CHOOSE i \in 1..Len(out) :
             out[i] = x /\ \A j \in (i + 1)..Len(out) : out[j] # x
    ELSE 0

\* The ids of the registers of the open module, in document order, and the
\* name texts written for them.
ModuleRegisterIds ==
    LET at == Ascending({ i \in (LastStart(inp, "module") + 1)..Len(inp) :
                            IsStart(inp[i], "register") /\ Given(inp[i], "id") })
    IN  [k \in 1..Len(at) |-> Text(inp[at[k]], "id")]

ModuleRegisterNames ==
    LET at == Ascending({ i \in (LastWritten(StartTag("peripheral")) + 1)..(Len(out) - 2) :
                            out[i] = StartTag("register") /\ out[i + 1] = StartTag("name") })
    IN  [k \in 1..Len(at) |-> out[at[k] + 2].s]

Underscores(n) == [i \in 1..n |-> "_"]

---------------------------------------------------------------------------
(* Enumerated values (SpecEnum): bitfields whose bitenum entries repeat a  *)
(* value, in one field and in the next.                                    *)

MaxEnumEvents == 9

EnumBitenumAttrs ==
    { << Attr("value", << "1" >>) >>,
      << Attr("value", << " ", "1" >>) >>,
      << Attr("id", << "A" >>), Attr("value", << "2" >>) >>,
      << Attr("id", << "A" >>) >> }

EnumArgs == { Args(FALSE, 0, TRUE, z, FALSE, 0) : z \in BOOLEAN }

EnumInit == \E a \in EnumArgs, oc \in BOOLEAN : Start(a, oc)

EnumRegister ==
    /\ Len(inp) < MaxEnumEvents
    /\ Deliver(StartElement("register", << >>), NoFiles)

EnumBitfield ==
    /\ Len(inp) < MaxEnumEvents
    /\ Deliver(StartElement("bitfield", << >>), NoFiles)

EnumBitenum ==
    /\ Len(inp) < MaxEnumEvents
    /\ \E a \in EnumBitenumAttrs : Deliver(StartElement("bitenum", a), NoFiles)

EnumClose == Close(NoFiles)

EnumNext == EnumRegister \/ EnumBitfield \/ EnumBitenum \/ EnumClose \/ Finish

SpecEnum == EnumInit /\ [][EnumNext]_vars

InBitfield == \E i \in 1..Len(reader_open) : reader_open[i] = "bitfield"

\* The value literals of the bitenum entries of the open bitfield.
SeenInField ==
    { Text(inp[i], "value") :
        i \in { j \in (LastStart(inp, "bitfield") + 1)..Len(inp) :
                  IsStart(inp[j], "bitenum") /\ Given(inp[j], "value") } }

---------------------------------------------------------------------------
(* Access keys (SpecAccess): registers whose rwaccess is one of the three  *)
(* keys or any other short text.                                           *)

MaxAccessEvents == 4

AccessLetters == { "R", "W", "O" }

AccessKeys ==
    { << a >> : a \in AccessLetters }
    \cup { << a, b >> : a \in AccessLetters, b \in AccessLetters }
    \cup { << " ", "R", "O" >>, << "R", "W", " " >>, << "r", "o" >>,
           << "R", "/", "W" >>, << " " >> }

AccessArgs == { Args(s, 0, TRUE, z, FALSE, 0) : s \in BOOLEAN, z \in BOOLEAN }

AccessInit == \E a \in AccessArgs, oc \in BOOLEAN : Start(a, oc)

AccessModule ==
    /\ Len(inp) < MaxAccessEvents
    /\ Deliver(StartElement("module", << >>), NoFiles)

AccessRegister ==
    /\ Len(inp) < MaxAccessEvents
    /\ \E k \in AccessKeys :
           Deliver(StartElement("register", << Attr("rwaccess", k) >>), NoFiles)

AccessClose == Close(NoFiles)

AccessNext == AccessModule \/ AccessRegister \/ AccessClose \/ Finish

SpecAccess == AccessInit /\ [][AccessNext]_vars

\* The step ends by writing an access element with this text.
EndsWithAccess(text) ==
    /\ Len(Written) >= 3
    /\ Written[Len(Written) - 2] = StartTag("access")
    /\ Written[Len(Written) - 1] = Characters(text)
    /\ Written[Len(Written)] = EndTag

\* C7: write_access writes exactly one access element, with text "read",
\* "write", "read-write" for the key "RO", "WO", "RW"; for any other key it
\* writes nothing; it never fails.
C7_AccessMapping ==
    [][ (TakesStart("register") /\ Given(Last(inp'), "rwaccess"))
        => /\ result' = "running"
           /\ LET key == Text(Last(inp'), "rwaccess")
              IN  IF key = << "R", "O" >>
                  THEN Count(StartTag("access"), Written) = 1
                       /\ EndsWithAccess(<< "r", "e", "a", "d" >>)
                  ELSE IF key = << "W", "O" >>
                  THEN Count(StartTag("access"), Written) = 1
                       /\ EndsWithAccess(<< "w", "r", "i", "t", "e" >>)
                  ELSE IF key = << "R", "W" >>
                  THEN Count(StartTag("access"), Written) = 1
                       /\ EndsWithAccess(<< "r", "e", "a", "d", "-",
                                            "w", "r", "i", "t", "e" >>)
                  ELSE /\ Count(StartTag("access"), Written) = 0
                       /\ Len(Written) >= 3
                       /\ Written[Len(Written) - 2] = StartTag("description") ]_vars

\* A register with rwaccess "WO" was written with access "write", and one
\* with another key without an access element.
C7_Witness ==
    /\ Len(inp) = 4
    /\ IsStart(inp[2], "register") /\ Text(inp[2], "rwaccess") = << "W", "O" >>
    /\ IsStart(inp[4], "register") /\ Text(inp[4], "rwaccess") = << "O", "W" >>
    /\ Count(StartTag("access"), out) = 1
    /\ Count(Characters(<< "w", "r", "i", "t", "e" >>), out) = 1
    /\ result = "running"

---------------------------------------------------------------------------
(* Device documents (SpecDevice): a device with cpu blocks whose instances *)
(* refer to peripheral files that convert, that fail, that cannot be read  *)
(* and that do not exist.                                                  *)

MaxDeviceEvents == 8

Href(file) == S_Modules \o file

F_good == << "g" >>
F_wide == << "w" >>
F_over == << "o" >>
F_broken == << "b" >>
F_missing == << "m" >>

S_MOD == << "M", "O", "D" >>

\* A peripheral that converts.
GoodFile ==
    << StartElement("module", << Attr("id", S_MOD), Attr("value", << "7" >>) >>),
       StartElement("register", << Attr("id", S_CTRL), Attr("width", << "8" >>) >>),
       StartElement("bitfield", << Attr("end", << "0" >>), Attr("width", << "4" >>),
                                   Attr("resetval", << "0", "x", "5" >>) >>),
       EndElement("bitfield"),
       EndElement("register"),
       EndElement("module") >>

\* A peripheral with a field too wide for its register.
WideFile ==
    << StartElement("module", << Attr("id", S_MOD) >>),
       StartElement("register", << Attr("width", << "8" >>) >>),
       StartElement("bitfield", << Attr("end", << "6" >>), Attr("width", << "4" >>),
                                   Attr("resetval", << "1" >>) >>),
       EndElement("bitfield"),
       EndElement("register"),
       EndElement("module") >>

\* A peripheral with a reset value too big for its field.
OverFile ==
    << StartElement("module", << Attr("id", S_MOD) >>),
       StartElement("register", << Attr("width", << "8" >>) >>),
       StartElement("bitfield", << Attr("end", << "4" >>), Attr("width", << "4" >>),
                                   Attr("resetval", << "0", "x", "1", "F" >>) >>),
       EndElement("bitfield"),
       EndElement("register"),
       EndElement("module") >>

\* A peripheral the reader fails on.
BrokenFile ==
    << StartElement("module", << Attr("id", S_MOD) >>),
       StartElement("register", << >>),
       ReaderError >>

Opened(events) == [ok |-> TRUE, events |-> events]

\* get_parser_from_filename on the files that exist; Href(F_missing) does
\* not.
DeviceFiles ==
    (Href(F_good) :> Opened(GoodFile)) @@ (Href(F_wide) :> Opened(WideFile))
    @@ (Href(F_over) :> Opened(OverFile)) @@ (Href(F_broken) :> Opened(BrokenFile))

DeviceInstanceAttrs ==
    { << Attr("id", << "P", "-", "1" >>), Attr("baseaddr", << "0", "x", "4", "0" >>),
         Attr("size", << "1", "6" >>), Attr("href", Href(F_good)) >>,
      << Attr("id", << "W" >>), Attr("href", Href(F_wide)) >>,
      << Attr("id", << "O" >>), Attr("href", Href(F_over)) >>,
      << Attr("id", << "B" >>), Attr("href", Href(F_broken)) >>,
      << Attr("id", << "M" >>), Attr("href", Href(F_missing)) >>,
      << Attr("id", << "N" >>), Attr("href", << "x", "/" >> \o F_good) >>,
      << Attr("href", Href(F_good)) >> }

DeviceArgs ==
    { Args(FALSE, 0, FALSE, z, FALSE, c) : z \in BOOLEAN, c \in {0, 1} }

DeviceInit == \E a \in DeviceArgs, oc \in BOOLEAN : Start(a, oc)

DeviceDevice ==
    /\ Len(inp) < MaxDeviceEvents
    /\ Deliver(StartElement("device", << Attr("id", << "D" >>) >>), DeviceFiles)

DeviceCpu ==
    /\ Len(inp) < MaxDeviceEvents
    /\ Deliver(StartElement("cpu", << Attr("isa", S_Cortex_ \o << "M", "4" >>) >>),
               DeviceFiles)

DeviceInstance ==
    /\ Len(inp) < MaxDeviceEvents
    /\ \E a \in DeviceInstanceAttrs :
           Deliver(StartElement("instance", a), DeviceFiles)

\* The reader fails on the device document.
DeviceReaderError ==
    /\ Len(inp) < MaxDeviceEvents
    /\ Deliver(ReaderError, DeviceFiles)

DeviceClose == Close(DeviceFiles)

DeviceNext ==
    DeviceDevice \/ DeviceCpu \/ DeviceInstance \/ DeviceReaderError
    \/ DeviceClose \/ Finish

SpecDevice == DeviceInit /\ [][DeviceNext]_vars

InCpu == \E i \in 1..Len(reader_open) : reader_open[i] = "cpu"

\* The number of cpu elements closed so far: the zero-based index of the
\* cpu element the reader is in.
CpuIndex == Count(EndElement("cpu"), inp)

InMatchedCpu == InCpu /\ CpuIndex = args.cpunum

\* StartTags not yet closed.
Depth(s) ==
    Cardinality({ i \in 1..Len(s) : s[i].t = "start" })
    - Cardinality({ i \in 1..Len(s) : s[i].t = "end" })

\* C6: an instance outside the cpu element with index cpunum writes
\* nothing, and a peripheral element is only written by a step that takes
\* an instance inside that cpu element.
C6_CpuFiltering ==
    [][ /\ (TakesStart("instance") /\ ~InMatchedCpu) => out' = out
        /\ Count(StartTag("peripheral"), Written) > 0 =>
               (TakesStart("instance") /\ InMatchedCpu) ]_vars

\* With cpunum 1, the same instance under the first and under the second
\* cpu: one peripheral was written.
C6_Witness ==
    /\ args.cpunum = 1 /\ CpuIndex = 1 /\ InCpu
    /\ Cardinality({ i \in 1..Len(inp) :
                       IsStart(inp[i], "instance") /\ Given(inp[i], "id")
                       /\ Text(inp[i], "href") = Href(F_good) }) = 2
    /\ Count(StartTag("peripheral"), out) = 1
    /\ result = "running"

\* The step takes an event on which the conversion must fail: a reader
\* error, or an instance of the matched cpu whose file is missing, cannot be
\* read, has a field too wide or, without --sanitize, a reset value too big.
FailingFiles ==
    { Href(F_missing), Href(F_broken), Href(F_wide) }
    \cup (IF args.sanitize THEN {} ELSE { Href(F_over) })

TakesFailingInstance ==
    /\ TakesStart("instance") /\ InMatchedCpu
    /\ Given(Last(inp'), "id") /\ Given(Last(inp'), "href")
    /\ Text(Last(inp'), "href") \in FailingFiles

TakesReaderError == Takes /\ Last(inp').kind = "error"

IsPrefix(s, t) == Len(s) <= Len(t) /\ SubSeq(t, 1, Len(s)) = s

\* C9: a fatal error makes the conversion return an error; after it no
\* event is taken and nothing is written; what was written before it stays,
\* and the peripheral element opened for the failing instance is left open.
C9_FatalAbort ==
    [][ /\ (TakesFailingInstance \/ TakesReaderError) => result' = "err"
        /\ result # "running" => (inp' = inp /\ out' = out /\ result' = result)
        /\ IsPrefix(out, out')
        /\ TakesReaderError => out' = out
        /\ TakesFailingInstance =>
               /\ Depth(out') > Depth(out)
               /\ \E i \in 1..Len(Written) :
                      /\ Written[i] = StartTag("peripheral")
                      /\ Depth(SubSeq(Written, i, Len(Written))) > 0 ]_vars

\* The conversion failed on the field too wide in the file of an instance:
\* the output ends with the field's StartTag.
C9_Witness ==
    /\ result = "err"
    /\ IsStart(Last(inp), "instance")
    /\ Text(Last(inp), "href") = Href(F_wide)
    /\ Last(out) = StartTag("field")
    /\ Count(StartTag("peripheral"), out) >= 1

\* C10: in a device conversion, a step that takes an instance and writes
\* something writes exactly one peripheral StartTag, before everything the
\* file's conversion writes, no name or value tag of the file's module, and,
\* when the file converts, the EndTag that closes the peripheral.
C10_Spliced ==
    [][ (mode = "device" /\ TakesStart("instance") /\ Written # << >>)
        => /\ Count(StartTag("peripheral"), Written) = 1
           /\ \A i \in 1..Len(Written) :
                  /\ Written[i] # Characters(S_MOD)
                  /\ Written[i] # StartTag("value")
           /\ \A i \in 1..Len(Written) :
                  Written[i] = StartTag("peripheral") =>
                      \A j \in 1..(i - 1) : Written[j] = StartTag("peripherals")
           /\ result' = "running" =>
                  \A i \in 1..Len(Written) :
                      Written[i] = StartTag("peripheral") =>
                          /\ Depth(SubSeq(Written, i, Len(Written))) = 0
                          /\ \A j \in i..(Len(Written) - 1) :
                                 Depth(SubSeq(Written, i, j)) > 0 ]_vars

\* An accepted instance was written as one peripheral element that holds
\* the registers of its file.
C10_Witness ==
    /\ mode = "device" /\ result = "running" /\ Len(inp) > 0
    /\ IsStart(Last(inp), "instance")
    /\ Text(Last(inp), "href") = Href(F_good)
    /\ Count(StartTag("peripheral"), out) = 1
    /\ Count(StartTag("register"), out) = 1
    /\ Count(Characters(<< "0", "x", "5" >>), out) = 1
    /\ Last(out) = EndTag

---------------------------------------------------------------------------
(* Numbers in attributes (SpecNumbers): peripheral documents whose         *)
(* registers and bitfields carry numeric attributes that are numbers,      *)
(* hexadecimal in either case of the prefix, and not numbers at all.       *)

MaxNumbersEvents == 4

S_zz == << "z", "z" >>

NumbersRegisterAttrs ==
    { << Attr("id", << "R" >>), Attr("width", << "8" >>) >>,
      << Attr("id", << "R" >>), Attr("width", S_zz) >>,
      << Attr("width", << "8" >>), Attr("resetval", S_zz) >>,
      << Attr("width", << "8" >>), Attr("resetval", << "3" >>) >> }

NumbersBitfieldAttrs ==
    { << Attr("end", << "0" >>), Attr("width", << "8" >>),
         Attr("resetval", << "0", "x", "1", "F" >>) >>,
      << Attr("end", << "0" >>), Attr("width", << "8" >>),
         Attr("resetval", << "0", "X", "1", "F" >>) >>,
      << Attr("end", << "2" >>), Attr("width", << "6" >>),
         Attr("resetval", << "3", "1" >>) >>,
      << Attr("end", << "0" >>), Attr("width", << "8" >>),
         Attr("resetval", S_zz) >>,
      << Attr("begin", S_zz), Attr("end", << "0" >>) >>,
      << Attr("end", S_zz), Attr("width", << "8" >>) >>,
      << Attr("end", << "0" >>), Attr("width", S_zz) >> }

NumbersArgs == { Args(FALSE, 0, TRUE, z, FALSE, 0) : z \in BOOLEAN }

NumbersInit == \E a \in NumbersArgs, oc \in BOOLEAN : Start(a, oc)

NumbersRegister ==
    /\ Len(inp) < MaxNumbersEvents
    /\ \E a \in NumbersRegisterAttrs : Deliver(StartElement("register", a), NoFiles)

NumbersBitfield ==
    /\ Len(inp) < MaxNumbersEvents
    /\ \E a \in NumbersBitfieldAttrs : Deliver(StartElement("bitfield", a), NoFiles)

NumbersNext == NumbersRegister \/ NumbersBitfield \/ PackClose \/ Finish

SpecNumbers == NumbersInit /\ [][NumbersNext]_vars

\* A text of "0x" or "0X" and hexadecimal digits.
IsHexadecimalEitherCase(s) ==
    /\ Len(s) > 2 /\ s[1] = "0" /\ s[2] \in {"x", "X"}
    /\ \A i \in 3..Len(s) : s[i] \in HexDigitSet

\* Attribute n of e is absent or empty, or is a decimal number.
DecimalIfGiven(e, n) == Given(e, n) => IsDecimal(Text(e, n))

\* The bits of the accumulator, none without one.
AccumulatorBits(loc) ==
    IF IsSome(loc.register_reset_value) THEN Unwrap(loc.register_reset_value) ELSE {}

\* C11, as the specification states it: a bitfield whose resetval is not a
\* number (its begin, end and width are numbers) makes the conversion return
\* an error without --sanitize; with --sanitize the conversion goes on and
\* the accumulator is as before.
C11_UnparsedResetval ==
    [][ ( /\ TakesStart("bitfield")
          /\ HasAttr(Last(inp'), "resetval")
          /\ ~IsDecimal(Text(Last(inp'), "resetval"))
          /\ ~IsHexadecimalEitherCase(Text(Last(inp'), "resetval"))
          /\ DecimalIfGiven(Last(inp'), "begin")
          /\ DecimalIfGiven(Last(inp'), "end")
          /\ DecimalIfGiven(Last(inp'), "width") )
        => IF ~args.sanitize THEN result' = "err"
           ELSE /\ result' = "running"
                /\ per'.register_reset_value = per.register_reset_value ]_vars

\* C12, as the specification states it: a bitfield resetval of "0x" or "0X"
\* and hexadecimal digits is read as hexadecimal, any other as decimal, and
\* a value that fits the register adds value << end to the accumulator
\* ("0x1F" and "0X1F" both add 31 << end).
C12_ResetvalRadix ==
    [][ ( /\ TakesStart("bitfield")
          /\ HasAttr(Last(inp'), "resetval")
          /\ \/ IsDecimal(Text(Last(inp'), "resetval"))
             \/ IsHexadecimalEitherCase(Text(Last(inp'), "resetval"))
          /\ Given(Last(inp'), "end") /\ IsDecimal(Text(Last(inp'), "end"))
          /\ Given(Last(inp'), "width") /\ IsDecimal(Text(Last(inp'), "width"))
          /\ ~HasAttr(Last(inp'), "begin")
          /\ FitsRegister(Last(inp'), RegisterWidthHere) )
        => /\ result' = "running"
           /\ AccumulatorBits(per') =
                  AccumulatorBits(per)
                  \cup MovedUp(BitsOfNumber(FieldReset(Last(inp'))),
                               FieldEnd(Last(inp'))) ]_vars

\* The step takes a register or a bitfield with a numeric attribute (width
\* or resetval of a register; begin, end or width of a bitfield) that is
\* not a number.
TakesMalformedNumber ==
    \/ /\ TakesStart("register")
       /\ \/ ~DecimalIfGiven(Last(inp'), "width")
          \/ ~DecimalIfGiven(Last(inp'), "resetval")
    \/ /\ TakesStart("bitfield")
       /\ \/ ~DecimalIfGiven(Last(inp'), "begin")
          \/ ~DecimalIfGiven(Last(inp'), "end")
          \/ ~DecimalIfGiven(Last(inp'), "width")

\* C13, as the specification states it: such a step ends the conversion
\* with an error result, with and without --sanitize, and writes nothing
\* after the element's attributes are read (at most the start tags of the
\* element and of its group, which precede the attributes).
C13_MalformedNumber ==
    [][ TakesMalformedNumber
        => /\ result' = "err"
           /\ \A i \in 1..Len(Written) :
                  Written[i] \in { StartTag("registers"), StartTag("register"),
                                   StartTag("fields"), StartTag("field") } ]_vars

---------------------------------------------------------------------------
(* Instances (SpecAccept): device documents whose instances have and lack  *)
(* an id, a base address, a size and an href, with and without             *)
(* --no-device-info.                                                       *)

MaxAcceptEvents == 5

AcceptInstanceAttrs ==
    { << Attr("id", << "P", "-", "1" >>), Attr("baseaddr", << "0", "x", "4", "0" >>),
         Attr("size", << "1", "6" >>), Attr("href", Href(F_good)) >>,
      << Attr("id", << "Q" >>), Attr("href", Href(F_good)) >>,
      << Attr("id", << "S" >>), Attr("size", << "8" >>), Attr("href", Href(F_over)) >>,
      << Attr("id", << "B" >>), Attr("baseaddr", << "4" >>), Attr("href", Href(F_broken)) >>,
      << Attr("id", << "M" >>), Attr("href", Href(F_missing)) >>,
      << Attr("href", Href(F_missing)) >>,
      << Attr("id", << >>), Attr("href", Href(F_missing)) >>,
      << Attr("id", << " " >>), Attr("href", Href(F_good)) >>,
      << Attr("id", << "N" >>), Attr("href", << "x", "/" >> \o F_good) >>,
      << Attr("id", << "L" >>), Attr("href", << " " >> \o Href(F_good)) >>,
      << Attr("id", << "H" >>), Attr("size", << "8" >>) >> }

AcceptArgs ==
    { Args(FALSE, 0, FALSE, z, n, 0) : z \in BOOLEAN, n \in BOOLEAN }

AcceptInit == \E a \in AcceptArgs, oc \in BOOLEAN : Start(a, oc)

AcceptInstance ==
    /\ Len(inp) < MaxAcceptEvents
    /\ \E a \in AcceptInstanceAttrs :
           Deliver(StartElement("instance", a), DeviceFiles)

\* The device and cpu elements are those of SpecDevice.
AcceptNext == DeviceDevice \/ DeviceCpu \/ AcceptInstance \/ DeviceClose \/ Finish

SpecAccept == AcceptInit /\ [][AcceptNext]_vars

\* An instance with a non-empty id and an href that begins with
\* "../Modules/".
Accepted(e) ==
    /\ Given(e, "id")
    /\ Given(e, "href")
    /\ IsPrefix(<< ".", ".", "/", "M", "o", "d", "u", "l", "e", "s", "/" >>,
                Text(e, "href"))

\* C14: an instance inside the cpu element with index cpunum writes a
\* peripheral element if and only if it has a non-empty id and an href that
\* begins with "../Modules/"; any other instance there writes nothing,
\* leaves the peripherals group as it is and does not fail on an href that
\* cannot be resolved.
C14_InstanceAcceptance ==
    [][ (TakesStart("instance") /\ InMatchedCpu)
        => IF Accepted(Last(inp'))
           THEN Count(StartTag("peripheral"), Written) = 1
           ELSE out' = out /\ dev' = dev /\ result' = "running" ]_vars

\* After an accepted instance, an instance without an id whose href names a
\* file that does not exist was taken: nothing more was written and the
\* conversion goes on.
C14_Witness ==
    /\ result = "running" /\ Len(inp) > 3 /\ InCpu
    /\ IsStart(Last(inp), "instance")
    /\ ~HasAttr(Last(inp), "id")
    /\ Text(Last(inp), "href") = Href(F_missing)
    /\ Accepted(inp[Len(inp) - 2])
    /\ Count(StartTag("peripheral"), out) = 1
    /\ Last(out) = EndTag

\* What the handler of the running transducer returns for e under the
\* arguments a, from the locals of the current state.
Rerun(a, e, fs) ==
    IF mode = "peripheral" THEN PeripheralEvent(a, overflow_checks, per, e)
    ELSE DeviceEvent(a, overflow_checks, fs, dev, e)

TakesMatchedCpu == TakesStart("cpu") /\ CpuIndex = args.cpunum

\* C15: with --no-device-info the start of the cpu element with index cpunum
\* writes nothing; every step leaves the locals and the outcome that the
\* same step leaves without the option, and every other step writes what it
\* writes without the option.
C15_NoDeviceInfo ==
    [][ Takes =>
          /\ (TakesMatchedCpu /\ args.no_device_info) => out' = out
          /\ LET plain == Rerun([args EXCEPT !.no_device_info = FALSE],
                                Last(inp'), DeviceFiles)
             IN  /\ plain.loc = dev'
                 /\ plain.res = result'
                 /\ ~TakesMatchedCpu => plain.out = Written ]_vars

\* With --no-device-info, a device, its cpu and an accepted instance were
\* taken: the output is the device's StartTag and comment, then the
\* peripherals group with the peripheral.
C15_Witness ==
    /\ args.no_device_info /\ result = "running" /\ Len(inp) = 3
    /\ IsStart(inp[1], "device") /\ IsStart(inp[2], "cpu")
    /\ IsStart(inp[3], "instance") /\ Accepted(inp[3])
    /\ Len(out) > 4
    /\ out[1] = StartTag("device") /\ out[2].t = "comment"
    /\ out[3] = StartTag("peripherals") /\ out[4] = StartTag("peripheral")
    /\ Count(StartTag("cpu"), out) = 0

\* The tag element with the text content.
Tag(element, content) == << StartTag(element), Characters(content), EndTag >>

\* The name of the peripheral of an instance: its id, with "_" for "-" when
\* sanitizing.
PeripheralName(e) ==
    [i \in 1..Len(Text(e, "id")) |->
        IF args.sanitize /\ Text(e, "id")[i] = "-" THEN "_" ELSE Text(e, "id")[i]]

\* An accepted instance was taken since the last start of a cpu element.
PeripheralsOpened ==
    \E i \in (LastStart(inp, "cpu") + 1)..Len(inp) :
        IsStart(inp[i], "instance") /\ Accepted(inp[i])

\* What C20 says precedes the output of the file of instance e.
PeripheralHead(e) ==
    (IF PeripheralsOpened THEN << >> ELSE << StartTag("peripherals") >>)
    \o << StartTag("peripheral") >>
    \o Tag("name", PeripheralName(e))
    \o (IF Given(e, "baseaddr") THEN Tag("baseAddress", Text(e, "baseaddr"))
        ELSE << >>)
    \o (IF Given(e, "size")
        THEN << StartTag("addressBlock") >>
             \o Tag("offset", << "0" >>)
             \o Tag("size", Text(e, "size"))
             \o Tag("usage", << "r", "e", "g", "i", "s", "t", "e", "r", "s" >>)
             \o << EndTag >>
        ELSE << >>)

\* The conversion of the file an accepted instance refers to.
FileRun(e) ==
    process_peripheral_base(args, overflow_checks, DeviceFiles[Text(e, "href")].events)

\* C20: an accepted instance of the matched cpu whose href resolves writes,
\* in this order, the peripherals StartTag (when no instance was accepted
\* before in this cpu), the peripheral StartTag, name, baseAddress (if
\* given), addressBlock with offset "0", the size and usage "registers" (if
\* a size is given), all the output of the conversion of the file and, when
\* that conversion completes, the EndTag of the peripheral; all in the step
\* that takes the instance.
C20_InstanceOrder ==
    [][ ( /\ TakesStart("instance") /\ InMatchedCpu
          /\ Accepted(Last(inp'))
          /\ Text(Last(inp'), "href") \in DOMAIN DeviceFiles )
        => /\ Written = PeripheralHead(Last(inp'))
                        \o FileRun(Last(inp')).out
                        \o (IF FileRun(Last(inp')).res = "ok" THEN << EndTag >>
                            ELSE << >>)
           /\ result' = (IF FileRun(Last(inp')).res = "ok" THEN "running"
                         ELSE FileRun(Last(inp')).res) ]_vars

\* Two accepted instances of one cpu were written, the second with a base
\* address and an address block, under one peripherals group.
C20_Witness ==
    /\ result = "running" /\ Len(inp) > 3 /\ InCpu
    /\ IsStart(Last(inp), "instance") /\ Accepted(Last(inp))
    /\ Given(Last(inp), "baseaddr") /\ Given(Last(inp), "size")
    /\ Accepted(inp[Len(inp) - 2])
    /\ Count(StartTag("peripherals"), out) = 1
    /\ Count(StartTag("peripheral"), out) = 2
    /\ Count(StartTag("baseAddress"), out) = 1
    /\ Count(StartTag("addressBlock"), out) = 1
    /\ Last(out) = EndTag

---------------------------------------------------------------------------
(* Endianness (SpecEndian): device documents with property elements under  *)
(* the device and under its cpu elements, converted for the first and for  *)
(* the second cpu.                                                         *)

MaxEndianEvents == 7

S_little == << "l", "i", "t", "t", "l", "e" >>
S_big == << "b", "i", "g" >>

EndianPropertyAttrs ==
    { << Attr("Type", S_stringfield), Attr("id", S_Endianness), Attr("Value", S_little) >>,
      << Attr("Type", S_stringfield), Attr("id", S_Endianness), Attr("Value", S_big) >>,
      << Attr("Type", S_stringfield), Attr("id", S_Endianness) >>,
      << Attr("Type", << "n" >>), Attr("id", S_Endianness), Attr("Value", S_big) >>,
      << Attr("Type", S_stringfield), Attr("id", << "X" >>), Attr("Value", S_big) >> }

EndianArgs ==
    { Args(FALSE, 0, FALSE, z, FALSE, c) : z \in BOOLEAN, c \in {0, 1} }

EndianInit == \E a \in EndianArgs, oc \in BOOLEAN : Start(a, oc)

EndianProperty ==
    /\ Len(inp) < MaxEndianEvents
    /\ \E a \in EndianPropertyAttrs :
           Deliver(StartElement("property", a), DeviceFiles)

\* The device and cpu elements are those of SpecDevice.
EndianNext == DeviceDevice \/ DeviceCpu \/ EndianProperty \/ DeviceClose \/ Finish

SpecEndian == EndianInit /\ [][EndianNext]_vars

\* A property of type "stringfield" and id "Endianness".
IsEndiannessProperty(e) ==
    /\ IsStart(e, "property")
    /\ Given(e, "Type")
    /\ Text(e, "Type") = << "s", "t", "r", "i", "n", "g", "f", "i", "e", "l", "d" >>
    /\ Given(e, "id")
    /\ Text(e, "id") = << "E", "n", "d", "i", "a", "n", "n", "e", "s", "s" >>

\* C18, as the specification states it: the endianness of the device
\* context is only set by a step that takes an Endianness property inside
\* the cpu element with index cpunum, and once set it does not change.
C18_EndiannessConfined ==
    [][ /\ dev'.endianness # dev.endianness =>
               /\ Takes /\ IsEndiannessProperty(Last(inp'))
               /\ InCpu /\ CpuIndex = args.cpunum
        /\ IsSome(dev.endianness) => dev'.endianness = dev.endianness ]_vars

\* The texts of the endian tags in a sequence of output events.
EndianTexts(w) ==
    { w[i + 1].s : i \in { j \in 1..(Len(w) - 1) : w[j] = StartTag("endian") } }

\* C19: the start of the cpu element with index cpunum writes one endian
\* tag, with the endianness the device context holds at that moment or
\* "other" when it holds none; for cpunum 0 that is always "other"; no other
\* step writes an endian tag, so a property taken later does not change the
\* text.
C19_EndianEmitted ==
    [][ Takes =>
          /\ TakesMatchedCpu =>
               /\ Count(StartTag("endian"), Written) = 1
               /\ EndianTexts(Written) =
                      { IF IsSome(dev.endianness) THEN Unwrap(dev.endianness)
                        ELSE << "o", "t", "h", "e", "r" >> }
               /\ args.cpunum = 0 =>
                      EndianTexts(Written) = { << "o", "t", "h", "e", "r" >> }
          /\ ~TakesMatchedCpu => Count(StartTag("endian"), Written) = 0
          /\ IsPrefix(out, out') ]_vars

\* Converted for cpu 1: the first cpu element held the property "little",
\* the second cpu element was written with endian "little", and a property
\* "big" taken inside it afterwards left that as it is.
C19_Witness ==
    /\ args.cpunum = 1 /\ CpuIndex = 1 /\ InCpu /\ result = "running"
    /\ IsEndiannessProperty(Last(inp)) /\ Given(Last(inp), "Value")
    /\ Text(Last(inp), "Value") = S_big
    /\ Count(StartTag("endian"), out) = 1
    /\ EndianTexts(out) = { S_little }

---------------------------------------------------------------------------
(* Vocabulary and diagnostics (SpecVocabulary): documents of both          *)
(* transducers with elements and attributes the format does not know, with *)
(* the elements of the other transducer, and with every setting of the     *)
(* diagnostic options.                                                     *)

MaxVocabEvents == 4

S_foo == << "f", "o", "o" >>

\* Start elements of the vendor format, each with an attribute the format
\* does not know.
VocabElements ==
    { StartElement("module", << Attr("foo", << "1" >>), Attr("id", S_MOD) >>),
      StartElement("register", << Attr("id", S_CTRL), Attr("foo", << "1" >>),
                                  Attr("rwaccess", S_zz) >>),
      StartElement("bitfield", << Attr("end", << "0" >>), Attr("width", << "4" >>),
                                  Attr("foo", << "1" >>) >>),
      StartElement("bitenum", << Attr("foo", << "1" >>), Attr("value", << "1" >>) >>),
      StartElement("device", << Attr("id", << "D" >>), Attr("foo", << "1" >>) >>),
      StartElement("cpu", << Attr("foo", << "1" >>), Attr("isa", << "M" >>) >>),
      StartElement("property", << Attr("Type", S_stringfield), Attr("foo", << "1" >>),
                                  Attr("id", S_Endianness), Attr("Value", S_big) >>),
      StartElement("instance", << Attr("id", << "Q" >>), Attr("foo", << "1" >>),
                                  Attr("href", Href(F_good)) >>) }

\* Silent without diagnostics, or not silent with every diagnostic.
VocabArgs ==
    { Args(s, IF s THEN 0 ELSE 3, p, z, FALSE, 0) : s, p, z \in BOOLEAN }

VocabInit == \E a \in VocabArgs, oc \in BOOLEAN : Start(a, oc)

\* The reader delivers the start of an element of the vendor format.
VocabKnown ==
    /\ Len(inp) < MaxVocabEvents
    /\ \E e \in VocabElements : Deliver(e, DeviceFiles)

\* The reader delivers the start of an element the format does not know.
VocabUnknown ==
    /\ Len(inp) < MaxVocabEvents
    /\ Deliver(StartElement("group", << Attr("id", S_foo) >>), DeviceFiles)

VocabNext == VocabKnown \/ VocabUnknown \/ DeviceClose \/ Finish

SpecVocabulary == VocabInit /\ [][VocabNext]_vars

\* The element names the running transducer has an arm for.
RecognizedElements ==
    IF mode = "peripheral" THEN {"module", "register", "bitfield", "bitenum"}
    ELSE {"device", "cpu", "property", "instance"}

\* The attribute names the code looks for on an element.
RecognizedAttributes(n) ==
    IF n = "module"
    THEN {"HW_revision", "XML_version", "noNamespaceSchemaLocation", "id",
          "value", "token", "description"}
    ELSE IF n = "register"
    THEN {"id", "value", "width", "acronym", "description", "rwaccess", "offset",
          "resetval"}
    ELSE IF n = "bitfield"
    THEN {"id", "range", "begin", "width", "end", "rwaccess", "description",
          "resetval"}
    ELSE IF n = "bitenum" THEN {"id", "value", "description", "token"}
    ELSE IF n = "device" THEN {"id", "description"}
    ELSE IF n = "cpu" THEN {"HW_revision", "isa"}
    ELSE IF n = "property" THEN {"Type", "Value", "id"}
    ELSE IF n = "instance" THEN {"baseaddr", "endaddr", "size", "id", "href"}
    ELSE {}

\* The attributes of element n without those the code does not look for.
RECURSIVE Recognized(_, _)
Recognized(n, attributes) ==
    IF attributes = << >> THEN << >>
    ELSE (IF Head(attributes)[1] \in RecognizedAttributes(n)
          THEN << Head(attributes) >> ELSE << >>)
         \o Recognized(n, Tail(attributes))

\* The locals of the device transducer, the kept attributes of the device
\* element without those the code does not look for.
RecognizedLocals(loc) ==
    [loc EXCEPT !.device_attributes = Recognized("device", @)]

\* What the handler returns for the start element e without its
\* unrecognized attributes.
WithoutUnrecognized(e) ==
    IF mode = "peripheral"
    THEN PeripheralEvent(args, overflow_checks, per,
                         StartElement(e.name, Recognized(e.name, e.attrs)))
    ELSE DeviceEvent(args, overflow_checks, DeviceFiles, RecognizedLocals(dev),
                     StartElement(e.name, Recognized(e.name, e.attrs)))

TakesUnknownElement ==
    /\ Takes /\ Last(inp').kind \in {"start", "end"}
    /\ Last(inp').name \notin RecognizedElements

TakesRecognizedStart ==
    /\ Takes /\ Last(inp').kind = "start"
    /\ Last(inp').name \in RecognizedElements

\* C16: in both transducers, the start or the end of an element the
\* transducer has no arm for leaves the locals and the output unchanged and
\* the conversion running; a step that takes a recognized element writes
\* the events, has the outcome and leaves the locals that it has for the
\* same element without its unrecognized attributes.
C16_UnknownVocabulary ==
    [][ /\ TakesUnknownElement =>
               /\ per' = per /\ dev' = dev /\ out' = out
               /\ result' = "running"
        /\ TakesRecognizedStart =>
               /\ WithoutUnrecognized(Last(inp')).out = Written
               /\ WithoutUnrecognized(Last(inp')).res = result'
               /\ IF mode = "peripheral"
                  THEN WithoutUnrecognized(Last(inp')).loc = per'
                  ELSE RecognizedLocals(WithoutUnrecognized(Last(inp')).loc)
                       = RecognizedLocals(dev') ]_vars

\* A peripheral conversion took a register with an attribute "foo", an
\* unknown element inside it and its end, and then a bitfield: the register
\* and the field were written.
C16_Witness ==
    /\ mode = "peripheral" /\ result = "running" /\ Len(inp) = 4
    /\ IsStart(inp[1], "register") /\ HasAttr(inp[1], "foo")
    /\ IsStart(inp[2], "group") /\ inp[3] = EndElement("group")
    /\ IsStart(inp[4], "bitfield") /\ HasAttr(inp[4], "foo")
    /\ Count(StartTag("register"), out) = 1
    /\ Count(StartTag("field"), out) = 1
    /\ Count(Characters(<< "1" >>), out) = 0

\* C17: every step writes the events, has the outcome and leaves the locals
\* that the same step has under any other setting of silent and verbose;
\* two runs on the same events that differ only in these options therefore
\* write the same output and return the same result.
C17_DiagnosticsInert ==
    [][ Takes =>
          \A s \in BOOLEAN, v \in {0, 1, 3} :
              Rerun([args EXCEPT !.silent = s, !.verbose = v], Last(inp'), DeviceFiles)
              = Step(IF mode = "peripheral" THEN per' ELSE dev', Written, result') ]_vars

\* A run that is not silent, at verbosity 3, took a register with the
\* unknown access key "zz" and an unknown element: nothing of either is in
\* the output.
C17_Witness ==
    /\ ~args.silent /\ args.verbose = 3 /\ mode = "peripheral"
    /\ result = "running" /\ Len(inp) = 2
    /\ IsStart(inp[1], "register") /\ Given(inp[1], "rwaccess")
    /\ Text(inp[1], "rwaccess") = S_zz
    /\ IsStart(inp[2], "group")
    /\ Count(StartTag("access"), out) = 0
    /\ \A i \in 1..Len(out) : out[i].t # "comment"

---------------------------------------------------------------------------
(* The close of a register (SpecPack).                                     *)

TakesEnd(n) == Takes /\ Last(inp') = EndElement(n)

\* The events of a tag with some text.
IsTag(w, element) ==
    /\ Len(w) = 3
    /\ w[1] = StartTag(element) /\ w[2].t = "text" /\ w[3] = EndTag

\* C22: the close of a register writes the EndTag of the fields group when
\* the register had a bitfield, then the resetValue tag, then the EndTag of
\* the register; nothing was written as resetValue since the register's
\* StartTag, and no other step of the peripheral transducer writes a
\* resetValue.
C22_RegisterClose ==
    [][ Takes =>
          /\ TakesEnd("register") =>
               /\ LET closes == IF FieldsSince(RegisterStart(inp)) # {} THEN 1 ELSE 0
                  IN  /\ Len(Written) = closes + 4
                      /\ closes = 1 => Written[1] = EndTag
                      /\ IsTag(SubSeq(Written, closes + 1, closes + 3), "resetValue")
                      /\ Written[closes + 4] = EndTag
               /\ Count(StartTag("resetValue"),
                        SubSeq(out, LastWritten(StartTag("register")), Len(out))) = 0
          /\ ~TakesEnd("register") => Count(StartTag("resetValue"), Written) = 0 ]_vars

\* A register with a bitfield was closed: the output ends with the EndTag
\* of the fields group, the resetValue tag and the EndTag of the register.
C22_Witness ==
    /\ result = "running" /\ ClosedRegister
    /\ FieldsSince(RegisterStart(inp)) # {}
    /\ Len(out) > 6
    /\ out[Len(out) - 4] = EndTag /\ out[Len(out) - 5] = EndTag
    /\ Count(StartTag("resetValue"), out) = 1
    /\ Count(StartTag("register"), out) = 1

---------------------------------------------------------------------------
(* The width of a bitfield (SpecPack).                                     *)

\* The texts of the tags named element in a sequence of output events.
TagTexts(w, element) ==
    { w[i + 1].s : i \in { j \in 1..(Len(w) - 1) : w[j] = StartTag(element) } }

\* The texts are one decimal text, of the number n.
IsNumberText(texts, n) ==
    /\ Cardinality(texts) = 1
    /\ \A t \in texts : IsDecimal(t) /\ Len(t) < 10 /\ NumberOf(t, 10) = n

\* The step takes a bitfield whose begin, end and width are numbers where
\* given, with an end.
TakesNumberedField ==
    /\ TakesStart("bitfield")
    /\ Given(Last(inp'), "end")
    /\ DecimalIfGiven(Last(inp'), "begin")
    /\ DecimalIfGiven(Last(inp'), "end")
    /\ DecimalIfGiven(Last(inp'), "width")

\* C23, as the specification states it: a bitfield with begin and end has
\* the width begin - end + 1, whatever its width attribute: the step goes
\* on or returns an error, a field with a reset value and begin + 1
\* above the register's width is an error, and the bitWidth written is
\* begin - end + 1; without begin the bitWidth written is the width
\* attribute, if any; the bitOffset written is the end attribute.
C23_WidthDerivation ==
    [][ TakesNumberedField =>
          LET e == Last(inp')
          IN  /\ Given(e, "begin") => result' \in {"running", "err"}
              /\ ( /\ Given(e, "begin")
                   /\ HasAttr(e, "resetval") /\ IsResetText(Text(e, "resetval"))
                   /\ NumberOf(Text(e, "begin"), 10) + 1 > RegisterWidthHere )
                 => result' = "err"
              /\ result' = "running" =>
                   /\ IsNumberText(TagTexts(Written, "bitOffset"), FieldEnd(e))
                   /\ IF Given(e, "begin")
                      THEN IsNumberText(TagTexts(Written, "bitWidth"),
                               NumberOf(Text(e, "begin"), 10) - FieldEnd(e) + 1)
                      ELSE IF Given(e, "width")
                      THEN IsNumberText(TagTexts(Written, "bitWidth"), FieldWidth(e))
                      ELSE TagTexts(Written, "bitWidth") = {} ]_vars

---------------------------------------------------------------------------
(* The scopes of the peripheral transducer (SpecPack).                     *)

\* The step takes the start of an element outside the scope the vendor
\* format gives it: a register outside every module, a bitfield outside
\* every register.
TakesOutOfScope ==
    \/ TakesStart("register") /\ ~InModule
    \/ TakesStart("bitfield") /\ ~InRegister

\* C25, as the specification states it: an element that arrives outside its
\* enclosing scope is not processed: the step writes no output event and
\* leaves the register's reset-value accumulator as it was.
C25_ScopeNesting ==
    [][ TakesOutOfScope =>
          /\ Written = << >>
          /\ per'.register_reset_value = per.register_reset_value ]_vars

---------------------------------------------------------------------------
(* The reset value of a register and its own attribute (SpecPack).         *)

\* The accumulator after a bitfield: as before, or with the field's reset
\* value, moved up to its end, OR-ed in.
Contributed(e) ==
    \/ per'.register_reset_value = per.register_reset_value
    \/ /\ Given(e, "end") /\ IsDecimal(Text(e, "end"))
       /\ HasAttr(e, "resetval") /\ IsResetText(Text(e, "resetval"))
       /\ per'.register_reset_value =
              Some(OrElse(per.register_reset_value, {})
                   \cup MovedUp(BitsOfNumber(FieldReset(e)), FieldEnd(e)))

\* C29: the start of a register sets the accumulator to the number of its
\* decimal resetval attribute, to None without one; a bitfield leaves the
\* accumulator or ORs its reset value in; no other event changes it; the
\* close of the register writes "0x" and the hexadecimal of the
\* accumulator, and "0" exactly when the accumulator is None.
C29_ResetvalSeeding ==
    [][ (Takes /\ mode = "peripheral") =>
          LET e == Last(inp')
          IN  /\ (TakesStart("register") /\ result' = "running") =>
                    per'.register_reset_value =
                        IF Given(e, "resetval")
                        THEN Some(BitsOfNumber(NumberOf(Text(e, "resetval"), 10)))
                        ELSE None
              /\ (TakesStart("bitfield") /\ result' = "running") => Contributed(e)
              /\ (~TakesStart("register") /\ ~TakesStart("bitfield")) =>
                    per'.register_reset_value = per.register_reset_value
              /\ TakesEnd("register") =>
                    /\ Cardinality(TagTexts(Written, "resetValue")) = 1
                    /\ \A t \in TagTexts(Written, "resetValue") :
                           IF IsSome(per.register_reset_value)
                           THEN IsHexLiteralOf(t, Unwrap(per.register_reset_value))
                           ELSE t = << "0" >> ]_vars

\* An 8-bit register with resetval="256" and one bitfield with the reset
\* value 0x5 at end 0 is closed with the resetValue 0x105.
C29_Witness ==
    /\ result = "running" /\ ClosedRegister
    /\ Given(inp[RegisterStart(inp)], "resetval")
    /\ Text(inp[RegisterStart(inp)], "resetval") = << "2", "5", "6" >>
    /\ \E i \in FieldsSince(RegisterStart(inp)) :
           /\ PlainField(inp[i])
           /\ FieldReset(inp[i]) = 5 /\ FieldEnd(inp[i]) = 0
    /\ EmittedResetValue = << "0", "x", "1", "0", "5" >>

---------------------------------------------------------------------------
(* The index of the cpu element (SpecDevice).                              *)

\* The starts of cpu elements in the input, and those of them that come
\* after exactly cpunum closed cpu elements.
CpuStarts == { i \in 1..Len(inp) : IsStart(inp[i], "cpu") }

MatchingCpuStarts ==
    { i \in CpuStarts : Count(EndElement("cpu"), SubSeq(inp, 1, i)) = args.cpunum }

\* What the device element alone writes: its StartTag, the comment and its
\* EndTag.
DeviceWrapper == write_start("device") \o write_comment(S_created) \o write_end

\* C26: the cpu index of process_device_base is the number of cpu closes
\* taken so far; at most one cpu start meets the index cpunum; the device
\* information and the peripherals group are written at most once; and as
\* long as the document has at most cpunum cpu elements and the reader does
\* not fail, the conversion goes on writing nothing but the device wrapper
\* and ends in success with exactly the wrapper of its device element.
C26_CpuIndex ==
    mode = "device" =>
        /\ dev.cpunum = Count(EndElement("cpu"), inp)
        /\ Cardinality(MatchingCpuStarts) <= 1
        /\ Count(StartTag("cpu"), out) <= 1
        /\ Count(StartTag("peripherals"), out) <= 1
        /\ (Cardinality(CpuStarts) <= args.cpunum /\ Count(ReaderError, inp) = 0) =>
               /\ result \in {"running", "ok"}
               /\ IsPrefix(out, DeviceWrapper)
               /\ result = "ok" =>
                      out = IF IsStart(inp[1], "device") THEN DeviceWrapper ELSE << >>

\* With cpunum 1, a device with one cpu element that holds an instance of a
\* readable file has been converted: the output is the wrapper alone.
C26_Witness ==
    /\ mode = "device" /\ args.cpunum = 1 /\ result = "ok"
    /\ Cardinality(CpuStarts) = 1
    /\ \E i \in 1..Len(inp) :
           /\ IsStart(inp[i], "instance") /\ Given(inp[i], "id")
           /\ HasAttr(inp[i], "href") /\ Text(inp[i], "href") = Href(F_good)
           /\ i > 1 /\ IsStart(inp[i - 1], "cpu")
    /\ out = DeviceWrapper

---------------------------------------------------------------------------
(* The end of a conversion.  The loop "for e in parser" of a transducer    *)
(* runs on as long as the reader has an event and no handler has returned: *)
(* a conversion does not stop where a step can be taken.  Wherever one can, *)
(* the start of a bitfield (before the root element), the close of the     *)
(* open element or the end of the document can be taken, so fairness of   *)
(* these three is fairness of the loop.                                    *)

SpecNumbersFair ==
    SpecNumbers /\ WF_vars(NumbersBitfield) /\ WF_vars(PackClose) /\ WF_vars(Finish)

\* Every conversion leaves its loop: by the end of the document, by an
\* error or by a panic.
LeavesLoop == <>(result # "running")

\* C27, as the specification states it: every conversion of a finite
\* document eventually ends in success or in an error.
C27_Terminates == <>(result \in {"ok", "err"})

---------------------------------------------------------------------------
(* The bits a bitfield adds to the accumulator (SpecPack).                 *)

\* C30, as the specification states it: a bitfield with end, width and a
\* reset value adds no bit to the register's accumulator outside the
\* positions end .. end + width - 1.
C30_FieldContainment ==
    [][ (TakesStart("bitfield") /\ PlainField(Last(inp')) /\ result' = "running") =>
          \A b \in AccumulatorBits(per') \ AccumulatorBits(per) :
              /\ b >= FieldEnd(Last(inp'))
              /\ b < FieldEnd(Last(inp')) + FieldWidth(Last(inp')) ]_vars

---------------------------------------------------------------------------
(* Complete, properly nested documents: module > register > bitfield >     *)
(* bitenum for process_peripheral, device > cpu > instance for             *)
(* process_device, with bitenum elements with and without a description.   *)
(* The device and cpu elements and the files are those of SpecDevice.      *)

MaxGroupsEvents == 9

GroupsParent ==
    [ module |-> "", register |-> "module", bitfield |-> "register",
      bitenum |-> "bitfield", device |-> "", cpu |-> "device", instance |-> "cpu" ]

GroupsElements ==
    { StartElement("module", << Attr("id", << "M" >>) >>),
      StartElement("register", << Attr("id", << "R" >>) >>),
      StartElement("bitfield", << Attr("end", << "0" >>), Attr("width", << "4" >>),
                                  Attr("resetval", << "0", "x", "5" >>) >>),
      StartElement("bitenum", << Attr("id", << "A" >>), Attr("value", << "1" >>),
                                 Attr("description", << "d" >>) >>),
      StartElement("bitenum", << Attr("value", << "1" >>),
                                 Attr("description", << >>) >>),
      StartElement("bitenum", << Attr("value", << "2" >>) >>),
      StartElement("device", << Attr("id", << "D" >>) >>),
      StartElement("cpu", << Attr("isa", S_Cortex_ \o << "M", "4" >>) >>),
      StartElement("instance", << Attr("id", << "P", "-", "1" >>),
                                  Attr("href", Href(F_good)) >>),
      StartElement("instance", << Attr("id", << "W" >>), Attr("href", Href(F_wide)) >>),
      StartElement("instance", << Attr("href", Href(F_good)) >>) }

GroupsArgs ==
    { Args(FALSE, 0, TRUE, z, FALSE, 0) : z \in BOOLEAN }
    \cup { Args(FALSE, 0, FALSE, z, FALSE, c) : z \in BOOLEAN, c \in {0, 1} }

GroupsInit == \E a \in GroupsArgs, oc \in BOOLEAN : Start(a, oc)

\* The reader delivers the start of an element in its place: directly under
\* its parent element, in a document of the transducer that runs.
GroupsStart ==
    /\ Len(inp) < MaxGroupsEvents
    /\ \E e \in GroupsElements :
           /\ (mode = "device") = (e.name \in {"device", "cpu", "instance"})
           /\ GroupsParent[e.name] =
                  (IF reader_open = << >> THEN "" ELSE Last(reader_open))
           /\ Deliver(e, DeviceFiles)

GroupsNext == GroupsStart \/ DeviceClose \/ Finish

SpecGroups == GroupsInit /\ [][GroupsNext]_vars

---------------------------------------------------------------------------
(* The group elements (SpecGroups).                                        *)

\* No child element was started since the last start of a parent element.
NoneSince(child, parent) ==
    \A i \in (LastStart(inp, parent) + 1)..Len(inp) : ~IsStart(inp[i], child)

EndTags(n) == [i \in 1..n |-> EndTag]

\* The step writes the StartTag of the group, once and before anything
\* else, if it takes the first child since the parent's start, and no
\* StartTag of the group otherwise.
OpensGroup(group, child, parent) ==
    IF TakesStart(child) /\ NoneSince(child, parent)
    THEN Count(StartTag(group), Written) = 1 /\ Written[1] = StartTag(group)
    ELSE Count(StartTag(group), Written) = 0

\* The same for the peripherals group of process_device_base: its children
\* are the accepted instances of the cpu element with index cpunum.
OpensPeripherals ==
    IF /\ TakesStart("instance") /\ InMatchedCpu
       /\ Accepted(Last(inp')) /\ ~PeripheralsOpened
    THEN /\ Count(StartTag("peripherals"), Written) = 1
         /\ Written[1] = StartTag("peripherals")
    ELSE Count(StartTag("peripherals"), Written) = 0

---------------------------------------------------------------------------
(* The nesting of the output (SpecGroups).                                 *)

\* C28: whatever a conversion of a properly nested document has written so
\* far, no prefix of it has more EndTags than StartTags, and when the
\* conversion returns Ok every StartTag written has its EndTag.
C28_Balanced ==
    /\ \A k \in 0..Len(out) : Depth(SubSeq(out, 1, k)) >= 0
    /\ result = "ok" => Depth(out) = 0

\* process_device has converted a device with a cpu and an instance whose
\* file was spliced in.
ConvertedDevice ==
    /\ mode = "device" /\ result = "ok"
    /\ Count(StartTag("peripheral"), out) = 1
    /\ Count(StartTag("field"), out) = 1
    /\ Depth(out) = 0

\* process_peripheral has converted a module with a register, a bitfield
\* and two bitenum entries: every StartTag written has its EndTag.
C28_Witness ==
    /\ mode = "peripheral" /\ result = "ok"
    /\ Count(StartTag("peripheral"), out) = 1
    /\ Count(StartTag("enumeratedValue"), out) = 2
    /\ Count(EndTag, out) > 10
    /\ Depth(out) = 0

---------------------------------------------------------------------------
(* The entries of an enumeration (SpecGroups).                             *)

\* The step takes a bitenum and writes an enumeratedValue for it.
TakesWrittenBitenum ==
    /\ TakesStart("bitenum")
    /\ Count(StartTag("enumeratedValue"), Written) = 1

\* The name and the value C24 describes: the id, or without an id the value
\* when sanitizing, and the value.
NamedAndValued(e) ==
    /\ TagTexts(Written, "name") =
           IF Given(e, "id") THEN { Text(e, "id") }
           ELSE IF args.sanitize THEN { Text(e, "value") }
           ELSE {}
    /\ TagTexts(Written, "value") = { Text(e, "value") }
    /\ Given(e, "description") =>
           TagTexts(Written, "description") = { Text(e, "description") }

\* C24, as the specification states it: the enumeratedValue written for a
\* bitenum holds the name, the value and one description, which is "--"
\* for a bitenum whose description attribute is empty.
C24_EnumeratedValue ==
    [][ TakesWrittenBitenum =>
          /\ NamedAndValued(Last(inp'))
          /\ Cardinality(TagTexts(Written, "description")) = 1
          /\ (HasAttr(Last(inp'), "description")
                /\ Len(Text(Last(inp'), "description")) = 0) =>
                 TagTexts(Written, "description") = { S_dashes } ]_vars

---------------------------------------------------------------------------
(* The shifts and the subtraction of the bitfield arm (SpecPack).  In a    *)
(* build with overflow checks a shift of a u64 by 64 or more and a u32     *)
(* subtraction below zero are panics, so there the bounds hold exactly     *)
(* when no bitfield with well-formed numbers panics.                       *)

\* C31, as the specification states it: for a bitfield whose begin, end and
\* width are numbers, the shift amounts registerWidth - end and end are in
\* 0..63 and begin - end + 1 neither underflows nor overflows: the arm's
\* arithmetic never goes out of range, whatever the register's width.
C31_ArithmeticBounds ==
    [][ TakesNumberedField => result' # "panic" ]_vars

=============================================================================
